---- MODULE Spec2Model ----
(***************************************************************************)
(* Family finance agents of Khalidis2/familybot.                           *)
(*                                                                         *)
(*   - the paid/consumed/net agent   src/__init__.py                      *)
(*   - the ledger agent and Ledger   src/familybot.py                     *)
(*   - the ledger agent with the transactions list and the categories     *)
(*                                   src/familybot__init__.py             *)
(*                                                                         *)
(* Text.  A line is a sequence of whitespace separated tokens.  Roster     *)
(* names and keywords are tokens; `name.lower() in lower` and              *)
(* `"owes" in lower` are token membership (no token of the vocabulary is a *)
(* substring of another one).  A numeral token is a digit/dot run; float() *)
(* of it is the table Value; float() rejects the runs of Malformed.        *)
(*                                                                         *)
(* Money.  Every amount is an integer number of mills (1/1000 of the       *)
(* currency unit), so that amounts with three decimals exist and           *)
(* round(x, 2) is a real operation.  Arithmetic is exact decimal           *)
(* arithmetic.  Python rounds the binary float, so a value that is an      *)
(* exact decimal tie (x.xx5) goes up or down depending on its binary       *)
(* representation: every rounding of an action takes that choice either   *)
(* way, independently of the other roundings (a Boolean up where the       *)
(* action rounds once, a set of the rounding sites that go up otherwise).  *)
(***************************************************************************)
EXTENDS Integers, Naturals, Sequences, FiniteSets, TLC

VARIABLES
    members,        \* FamilyFinanceAgent.members / family_members: the roster
    pc,             \* position of the analyze call: "parse" | "done" | "error"
    nlines,         \* lines of the text consumed so far
    line,           \* the loop variable `line`: the line consumed last
    transactions,   \* _fallback_parse: transactions
    debts,          \* _fallback_parse: debts
    loans,          \* _fallback_parse: loans
    result,         \* analyze's return value (NoResult before it returns)
    ledger,         \* Ledger.debts: debtor -> (creditor -> amount)
    call,           \* the method a client of the Ledger called last, with its arguments
    detected_currencies,    \* ledger agent's analyze: detected_currencies
    monthly_obligations,    \* ledger agent's analyze: monthly_obligations
    settle,         \* _compute_settlements: the net balances it is called with and
                    \* its locals debtors, creditors, i, j, settlements while its
                    \* loop runs step by step
    CHAT_NOTES,     \* bot.py: CHAT_NOTES, chat id -> list of notes
    telegram,       \* the chats as Telegram sees them: the texts sent to each chat
                    \* since its last /reset, the month, and the handler that ran
                    \* last with its reply
    application,    \* api/telegram.py: application._initialized, and the
                    \* invocations of application.initialize() started and completed
    requests        \* api/telegram.py: the position of each POST request in process()

\* the variables of the agents and of the Ledger
agentvars == <<members, pc, nlines, line, transactions, debts, loans, result,
               ledger, call, detected_currencies, monthly_obligations, settle>>

\* the variables of the bot and of its webhook
botvars == <<CHAT_NOTES, telegram, application, requests>>

vars == <<agentvars, botvars>>

\* no bot is running
NoBot ==
    /\ CHAT_NOTES = <<>>
    /\ telegram = <<>>
    /\ application = <<>>
    /\ requests = <<>>

----------------------------------------------------------------------------
(* Bounds *)

MaxLines == 2       \* lines per analysed text
MaxDebt == 6        \* largest Ledger entry that direct add_debt calls build up

----------------------------------------------------------------------------
(* Vocabulary *)

Names == {"Alex", "Jamie", "Sam"}

NumTokens == {"90", "0.03", "10.005"}

\* float(p) of a numeral token, in mills
Value(p) ==
    CASE p = "90" -> 90000
      [] p = "0.03" -> 30
      [] p = "10.005" -> 10005

\* digit/dot runs that float() rejects, and all digit/dot runs
Malformed == {"1.2.3"}
DigitRuns == NumTokens \cup Malformed

None == -1          \* Python's None where a number is expected
NoName == "None"    \* Python's None where a name is expected

RangeOf(s) == {s[i] : i \in 1..Len(s)}

\* Rosters of one, two and three distinct members.  The lines below range over
\* every name in every position, so every order of the line's names relative to
\* the roster occurs with these three rosters.
Rosters == {<<"Alex">>, <<"Alex", "Jamie">>, <<"Alex", "Jamie", "Sam">>}

----------------------------------------------------------------------------
(* round(x, 2) *)

\* round(a / n, 2) for a >= 0, n >= 1: nearest multiple of 10 mills
RoundDivPos(a, n, up) ==
    LET c == a \div (10 * n)
        r == a - 10 * n * c
    IN  IF 2 * r > 10 * n THEN 10 * (c + 1)
        ELSE IF 2 * r < 10 * n THEN 10 * c
        ELSE IF up THEN 10 * (c + 1) ELSE 10 * c

Round2(x, up) ==
    IF x >= 0 THEN RoundDivPos(x, 1, up) ELSE 0 - RoundDivPos(0 - x, 1, up)

Abs(x) == IF x >= 0 THEN x ELSE 0 - x

\* x lies exactly between two multiples of 0.01
IsTie(x) == Abs(x) % 10 = 5

RECURSIVE SumOver(_, _)
\* sum(...): the sum of f[k] over the keys k in S
SumOver(S, f) ==
    IF S = {} THEN 0
    ELSE LET k == CHOOSE x \in S : TRUE IN f[k] + SumOver(S \ {k}, f)

----------------------------------------------------------------------------
(* Lines of text *)

\* <P> paid <a> [for <B1> [and <B2>]]
PaymentLines ==
    {<<p, "paid", a>> : p \in Names, a \in NumTokens}
    \cup {<<p, "paid", "90", "for", b>> : p \in Names, b \in Names}
    \cup {<<"Alex", "paid", "90", "for", "Jamie", "and", "Sam">>,
          <<"Jamie", "paid", "90", "for", "Alex", "and", "Sam">>,
          <<"Sam", "paid", "90", "for", "Alex", "and", "Jamie">>}

\* <D> owes <C> <a>
OwesLines ==
    {<<d, "owes", c, "90">> : d \in Names, c \in Names}
    \cup {<<"Alex", "owes", "Jamie", "10.005">>, <<"Jamie", "owes", "Alex", "10.005">>}
    \cup {<<"Alex", "owes", "90">>}

\* <B> took loan <a> [monthly <b>]
LoanLines ==
    {<<b, "took", "loan", "90">> : b \in Names}
    \cup {<<"Alex", "took", "loan", "90", "monthly", "0.03">>}

\* lines carrying the keywords of several rules, and lines without an amount
MixedLines ==
    {<<"Alex", "paid", "90", "loan">>,
     <<"Jamie", "owes", "Alex", "90", "loan">>,
     <<"Alex", "owes", "Jamie", "90", "loan">>,
     <<"Alex", "paid", "owes", "Jamie", "90">>,
     <<"Jamie", "paid", "owes", "Alex", "90">>,
     <<"Alex", "paid", "loan">>,
     <<"Alex", "paid">>,
     <<"Alex", "owes", "Jamie">>,
     <<"Jamie", "madyun", "li", "Alex", "90">>,
     <<"Alex", "paid", "1.2.3">>,
     <<"paid", "90">>, <<"loan", "90">>, <<"owes", "90">>, <<"hello">>}

Lines == PaymentLines \cup OwesLines \cup LoanLines \cup MixedLines

----------------------------------------------------------------------------
(* The paid/consumed/net agent: src/__init__.py *)

\* tokens = lower.replace(".", "").split(): the tokens of the line
Tokens(l) == RangeOf(l)

\* name.lower() in lower
Mentions(l, name) == name \in RangeOf(l)

\* the first name of the roster that the predicate set holds for, or NoName
FirstMember(roster, S) ==
    IF \E i \in 1..Len(roster) : roster[i] \in S
    THEN roster[CHOOSE i \in 1..Len(roster) :
                    /\ roster[i] \in S
                    /\ \A j \in 1..(i - 1) : roster[j] \notin S]
    ELSE NoName

\* the subsequence of the roster whose names are in S, in roster order
RECURSIVE FilterRoster(_, _)
FilterRoster(roster, S) ==
    IF roster = <<>> THEN <<>>
    ELSE (IF Head(roster) \in S THEN <<Head(roster)>> ELSE <<>>)
         \o FilterRoster(Tail(roster), S)

\* _extract_number: the last digit/dot run of the line that float() accepts
ExtractNumber(l) ==
    LET idx == {i \in 1..Len(l) : l[i] \in NumTokens}
    IN  IF idx = {} THEN None
        ELSE Value(l[CHOOSE i \in idx : \A j \in idx : j <= i])

\* the tokens after the first occurrence of kw: lower.split(kw, 1)[1]
After(l, kw) ==
    LET i == CHOOSE k \in 1..Len(l) :
                 l[k] = kw /\ \A j \in 1..(k - 1) : l[j] # kw
    IN  SubSeq(l, i + 1, Len(l))

\* lines 115-118: payer is the first roster name in the line, if "paid" is a token
Payer(roster, l) ==
    IF "paid" \in Tokens(l)
    THEN FirstMember(roster, {n \in Names : Mentions(l, n)})
    ELSE NoName

\* Beneficiaries with the fallback taking the whole roster, the payer included
BeneficiariesWithPayer(roster, l, payer) ==
    LET named == FilterRoster(roster, {n \in Names : n # payer /\ Mentions(l, n)})
    IN  IF named = <<>> THEN roster ELSE named

\* lines 122-128
Beneficiaries(roster, l, payer) ==
    LET named == FilterRoster(roster, {n \in Names : n # payer /\ Mentions(l, n)})
    IN  IF named = <<>>
        THEN FilterRoster(roster, {n \in Names : n # payer})
        ELSE named

\* keyword in lower: the keyword kw is a substring of the line, that is of one
\* of its tokens; Substrings lists the pairs <<keyword, longer token>> of the
\* vocabulary
Substrings == {<<"electric", "electricity">>, <<"du", "education">>}

HasKeyword(l, kw) ==
    \E i \in 1..Len(l) : l[i] = kw \/ <<kw, l[i]>> \in Substrings

UNCATEGORIZED == "uncategorized"

\* _guess_category, lines 173-197 (the Arabic tags are written in English, and
\* of each condition the Latin-script keywords are kept); "du" is looked up in
\* lower.split(), the other keywords in lower
GuessCategory(l) ==
    IF HasKeyword(l, "rent") THEN "rent"
    ELSE IF HasKeyword(l, "grocery") THEN "groceries"
    ELSE IF HasKeyword(l, "school") THEN "school fees"
    ELSE IF HasKeyword(l, "salik") THEN "salik"
    ELSE IF HasKeyword(l, "parking") THEN "parking"
    ELSE IF HasKeyword(l, "electric") THEN "electricity"
    ELSE IF HasKeyword(l, "water") THEN "water"
    ELSE IF HasKeyword(l, "etisalat") \/ "du" \in RangeOf(l) THEN "telecom"
    ELSE IF HasKeyword(l, "loan") THEN "loan"
    ELSE UNCATEGORIZED

Max(a, b) == IF a >= b THEN a ELSE b
Min(a, b) == IF a <= b THEN a ELSE b

\* line 129: share = round(amount / max(len(beneficiaries), 1), 2)
Share(amount, beneficiaries, up) ==
    RoundDivPos(amount, Max(Len(beneficiaries), 1), up)

\* the Transaction with a share for the payer as well
MakeTransactionPayerShare(roster, l, payer, amount, up) ==
    LET beneficiaries == Beneficiaries(roster, l, payer)
        share == Share(amount, beneficiaries, up)
    IN  [description |-> l,
         payer |-> payer,
         amount |-> amount,
         beneficiaries |-> beneficiaries,
         shares |-> [b \in RangeOf(beneficiaries) \cup {payer} |-> share],
         category |-> GuessCategory(l)]

\* lines 119-141: the Transaction of a payment line
MakeTransaction(roster, l, payer, amount, up) ==
    LET beneficiaries == Beneficiaries(roster, l, payer)
        share == Share(amount, beneficiaries, up)
    IN  [description |-> l,
         payer |-> payer,
         amount |-> amount,
         beneficiaries |-> beneficiaries,
         shares |-> [b \in RangeOf(beneficiaries) |-> share],
         category |-> GuessCategory(l)]

\* _parse_owes_line: <<debtor, creditor, amount>>, or <<NoName, NoName, None>>
ParseOwesLine(roster, l) ==
    IF "owes" \notin RangeOf(l) /\ "madyun" \notin RangeOf(l)
    THEN <<NoName, NoName, None>>
    ELSE
      LET named == {n \in Names : Mentions(l, n)}
          debtor == FirstMember(roster, named)
          c1 == IF "owes" \in RangeOf(l)
                THEN FirstMember(roster,
                        {n \in Names : Mentions(After(l, "owes"), n)})
                ELSE NoName
          \* lines 217-223: the Arabic preposition path
          c2 == IF "li" \in RangeOf(l) /\ c1 = NoName /\ debtor # NoName
                THEN FirstMember(roster, named \ {debtor})
                ELSE c1
          amount == ExtractNumber(l)
      IN  IF debtor # NoName /\ c2 # NoName /\ amount # None
          THEN <<debtor, c2, amount>>
          ELSE <<NoName, NoName, None>>

\* _parse_loan_line: <<loan>>, or <<>> for None
ParseLoanLine(roster, l) ==
    IF "loan" \notin RangeOf(l) /\ "qard" \notin RangeOf(l) THEN <<>>
    ELSE
      LET borrower == FirstMember(roster, {n \in Names : Mentions(l, n)})
          principal == ExtractNumber(l)
          monthly_payment ==
              IF "month" \in RangeOf(l) \/ "monthly" \in RangeOf(l)
              THEN ExtractNumber(l) ELSE None
      IN  IF borrower = NoName THEN <<>>
          ELSE <<[description |-> l,
                  borrower |-> borrower,
                  lender |-> "Bank",
                  principal |-> IF principal = None THEN 0 ELSE principal,
                  monthly_payment |->
                      IF monthly_payment = None THEN 0 ELSE monthly_payment]>>

\* FallbackParseLine without the `continue` that ends the explicit debt branch
FallbackParseLineNoContinue(roster, l, txs, ds, ls, up) ==
    LET payer == Payer(roster, l)
        amount == ExtractNumber(l)
        owes == ParseOwesLine(roster, l)
        loan == ParseLoanLine(roster, l)
    IN  IF payer # NoName /\ amount # None
        THEN <<Append(txs, MakeTransaction(roster, l, payer, amount, up)), ds, ls>>
        ELSE IF owes[1] # NoName /\ owes[2] # NoName /\ owes[3] # None
        THEN <<txs,
               Append(ds, [from |-> owes[1], to |-> owes[2],
                           amount |-> Round2(owes[3], up)]),
               ls \o loan>>
        ELSE <<txs, ds, ls \o loan>>

\* One iteration of the loop of _fallback_parse (lines 110-155):
\* <<transactions, debts, loans>> after the line
FallbackParseLine(roster, l, txs, ds, ls, up) ==
    LET payer == Payer(roster, l)
        amount == ExtractNumber(l)
        owes == ParseOwesLine(roster, l)
        loan == ParseLoanLine(roster, l)
    IN  IF payer # NoName /\ amount # None
        THEN <<Append(txs, MakeTransaction(roster, l, payer, amount, up)), ds, ls>>
        ELSE IF owes[1] # NoName /\ owes[2] # NoName /\ owes[3] # None
        THEN <<txs,
               Append(ds, [from |-> owes[1], to |-> owes[2],
                           amount |-> Round2(owes[3], up)]),
               ls>>
        ELSE <<txs, ds, ls \o loan>>

----------------------------------------------------------------------------
(* analyze, lines 36-101 *)

RECURSIVE SumPaid(_, _)
\* lines 37-40: summary_members[payer].paid += amount
SumPaid(txs, m) ==
    IF txs = <<>> THEN 0
    ELSE (IF Head(txs).payer = m THEN Head(txs).amount ELSE 0) + SumPaid(Tail(txs), m)

RECURSIVE SumConsumed(_, _)
\* lines 41-42: summary_members[b].consumed += share
SumConsumed(txs, m) ==
    IF txs = <<>> THEN 0
    ELSE (IF m \in DOMAIN Head(txs).shares THEN Head(txs).shares[m] ELSE 0)
         + SumConsumed(Tail(txs), m)

RECURSIVE SumDebts(_, _)
\* lines 43-48: net -= amount for the debtor, net += amount for the creditor
SumDebts(ds, m) ==
    IF ds = <<>> THEN 0
    ELSE (IF Head(ds).to = m THEN Head(ds).amount ELSE 0)
         - (IF Head(ds).from = m THEN Head(ds).amount ELSE 0)
         + SumDebts(Tail(ds), m)

\* NetOf without the explicit debts
NetOfNoDebts(txs, ds, m) == SumPaid(txs, m) - SumConsumed(txs, m)

\* lines 49-50: s.net += s.paid - s.consumed
NetOf(txs, ds, m) == SumDebts(ds, m) + SumPaid(txs, m) - SumConsumed(txs, m)

SettleTolerance == 10   \* 0.01, in mills

RECURSIVE InsertDesc(_, _)
\* x placed after every entry that is at least as large (a stable descending sort)
InsertDesc(x, sorted) ==
    IF sorted = <<>> THEN <<x>>
    ELSE IF Head(sorted)[2] >= x[2] THEN <<Head(sorted)>> \o InsertDesc(x, Tail(sorted))
    ELSE <<x>> \o sorted

RECURSIVE SortDesc(_)
\* list.sort(key=lambda x: x[1], reverse=True)
SortDesc(pairs) ==
    IF pairs = <<>> THEN <<>>
    ELSE InsertDesc(pairs[Len(pairs)], SortDesc(SubSeq(pairs, 1, Len(pairs) - 1)))

RECURSIVE Creditors(_, _)
\* lines 262-264, in the order of the summary dict (the roster)
Creditors(roster, net) ==
    IF roster = <<>> THEN <<>>
    ELSE (IF net[Head(roster)] > SettleTolerance
          THEN <<<<Head(roster), net[Head(roster)]>>>> ELSE <<>>)
         \o Creditors(Tail(roster), net)

RECURSIVE Debtors(_, _)
\* lines 265-266
Debtors(roster, net) ==
    IF roster = <<>> THEN <<>>
    ELSE (IF net[Head(roster)] < 0 - SettleTolerance
          THEN <<<<Head(roster), 0 - net[Head(roster)]>>>> ELSE <<>>)
         \o Debtors(Tail(roster), net)

RECURSIVE SettleLoop(_, _, _, _, _, _)
\* the while loop of lines 272-290; P holds the iterations (numbered from 1)
\* whose round(pay, 2) goes up on a tie
SettleLoop(debtors, creditors, i, j, settlements, P) ==
    IF ~(i <= Len(debtors) /\ j <= Len(creditors)) THEN settlements
    ELSE
      LET d_name == debtors[i][1]
          d_amt == debtors[i][2]
          c_name == creditors[j][1]
          c_amt == creditors[j][2]
          k == i + j - 1
          pay == Round2(Min(d_amt, c_amt), k \in P)
          out == IF pay > 0
                 THEN Append(settlements,
                             [from |-> d_name, to |-> c_name, amount |-> pay])
                 ELSE settlements
          d2 == d_amt - pay
          c2 == c_amt - pay
      IN  SettleLoop(
            IF d2 <= SettleTolerance THEN debtors
            ELSE [debtors EXCEPT ![i] = <<d_name, d2>>],
            IF c2 <= SettleTolerance THEN creditors
            ELSE [creditors EXCEPT ![j] = <<c_name, c2>>],
            IF d2 <= SettleTolerance THEN i + 1 ELSE i,
            IF c2 <= SettleTolerance THEN j + 1 ELSE j,
            out, P)

\* _compute_settlements, lines 257-291; net is the members' unrounded net
ComputeSettlements(roster, net, P) ==
    SettleLoop(SortDesc(Debtors(roster, net)), SortDesc(Creditors(roster, net)),
               1, 1, <<>>, P)

\* lines 52-64 and 85-94: one member's entry of result["summary"]["members"];
\* U holds the roundings <<field, member>> that go up on a tie (round(-net, 2)
\* and round(net, 2) round the same magnitude, so they go the same way)
MemberSummary(txs, ds, m, U) ==
    LET net == NetOf(txs, ds, m)
    IN  [paid |-> Round2(SumPaid(txs, m), <<"paid", m>> \in U),
         consumed |-> Round2(SumConsumed(txs, m), <<"consumed", m>> \in U),
         net |-> Round2(net, <<"net", m>> \in U),
         owes |-> IF net < 0 THEN Round2(0 - net, <<"net", m>> \in U) ELSE 0,
         due |-> IF net > 0 THEN Round2(net, <<"net", m>> \in U) ELSE 0,
         monthly_obligations |-> 0]

\* analyze, lines 36-101: the result for the parsed records
Summarize(roster, txs, ds, ls, U, P) ==
    [transactions |-> txs,
     loans |-> ls,
     members |-> [m \in RangeOf(roster) |-> MemberSummary(txs, ds, m, U)],
     settlements |->
         ComputeSettlements(roster, [m \in RangeOf(roster) |-> NetOf(txs, ds, m)], P)]

\* the roundings of analyze that meet an exact tie
TieSites(roster, txs, ds) ==
    {<<"paid", m>> : m \in {n \in RangeOf(roster) : IsTie(SumPaid(txs, n))}}
    \cup {<<"consumed", m>> : m \in {n \in RangeOf(roster) : IsTie(SumConsumed(txs, n))}}
    \cup {<<"net", m>> : m \in {n \in RangeOf(roster) : IsTie(NetOf(txs, ds, n))}}

\* the iterations of the settlement loop that can meet an exact tie
TieIterations(roster, txs, ds) ==
    IF \E m \in RangeOf(roster) : NetOf(txs, ds, m) % 10 # 0
    THEN 1..Len(roster) ELSE {}

NoResult == <<>>

----------------------------------------------------------------------------
(* The paid/consumed/net agent as a state machine *)

Init ==
    /\ members \in Rosters
    /\ pc = "parse"
    /\ nlines = 0
    /\ line = <<>>
    /\ transactions = <<>>
    /\ debts = <<>>
    /\ loans = <<>>
    /\ result = NoResult
    /\ ledger = <<>>
    /\ call = <<>>
    /\ detected_currencies = <<>>
    /\ monthly_obligations = <<>>
    /\ settle = <<>>
    /\ NoBot

\* one iteration of `for line in lines` of _fallback_parse
ParseLine ==
    /\ pc = "parse"
    /\ nlines < MaxLines
    /\ \E l \in Lines, up \in BOOLEAN :
         LET r == FallbackParseLine(members, l, transactions, debts, loans, up)
         IN  /\ line' = l
             /\ transactions' = r[1]
             /\ debts' = r[2]
             /\ loans' = r[3]
    /\ nlines' = nlines + 1
    /\ UNCHANGED <<botvars, members, pc, result, ledger, call, detected_currencies,
                   monthly_obligations, settle>>

\* the text is exhausted: analyze aggregates and returns
Analyze ==
    /\ pc = "parse"
    /\ \E U \in SUBSET TieSites(members, transactions, debts),
          P \in SUBSET TieIterations(members, transactions, debts) :
         result' = Summarize(members, transactions, debts, loans, U, P)
    /\ pc' = "done"
    /\ UNCHANGED <<botvars, members, nlines, line, transactions, debts, loans, ledger, call,
                   detected_currencies, monthly_obligations, settle>>

Next == ParseLine \/ Analyze

Spec == Init /\ [][Next]_vars

----------------------------------------------------------------------------
(* Properties of the paid/consumed/net agent *)

SettledFrom(m) ==
    LET st == result.settlements
    IN  SumOver({i \in 1..Len(st) : st[i].from = m}, [i \in 1..Len(st) |-> st[i].amount])

SettledTo(m) ==
    LET st == result.settlements
    IN  SumOver({i \in 1..Len(st) : st[i].to = m}, [i \in 1..Len(st) |-> st[i].amount])

\* C1: settlement conservation - in every analysis result, for every member m,
\* the settlement amounts paid by m add up to m's owes within 0.01 and the
\* settlement amounts received by m add up to m's due within 0.01.
C1_SettlementConservation ==
    pc = "done" =>
        \A m \in RangeOf(members) :
            /\ Abs(SettledFrom(m) - result.members[m].owes) <= 10
            /\ Abs(SettledTo(m) - result.members[m].due) <= 10

\* the lines "<P> paid <a> for <B1> and <B2>" with three distinct names
SharedPaymentLines ==
    {l \in PaymentLines : Len(l) = 7 /\ Cardinality({l[1], l[5], l[7]}) = 3}

\* C3: shared payment credit - analysing the single line
\* "<P> paid <a> for <B1> and <B2>", P, B1 and B2 distinct roster members, gives
\* due = a for P and owes = a/2 for B1 and for B2, wherever P is in the roster.
C3_SharedPaymentCredit ==
    (/\ pc = "done"
     /\ nlines = 1
     /\ line \in SharedPaymentLines
     /\ {line[1], line[5], line[7]} \subseteq RangeOf(members))
    => /\ result.members[line[1]].due = Value(line[3])
       /\ 2 * result.members[line[5]].owes = Value(line[3])
       /\ 2 * result.members[line[7]].owes = Value(line[3])

\* C4: even split - every Transaction of the result with n beneficiaries has
\* every share equal to round(amount / n, 2) and the shares add up to the amount
\* within 0.01 * n, also when the roster holds only the payer.
C4_EvenSplit ==
    pc = "done" =>
        \A i \in 1..Len(result.transactions) :
            LET tx == result.transactions[i]
                n == Len(tx.beneficiaries)
                total == SumOver(DOMAIN tx.shares, tx.shares)
            IN  /\ \A b \in DOMAIN tx.shares :
                      \E up \in BOOLEAN : tx.shares[b] = RoundDivPos(tx.amount, n, up)
                /\ Abs(total - tx.amount) <= 10 * n

TxIndices(txs) == 1..Len(txs)

\* C5: member summary - for every member m, paid is the sum of the amounts of
\* the transactions m paid, consumed is the sum of m's shares, net is paid -
\* consumed + the explicit debts owed to m - the explicit debts m owes, owes is
\* max(-net, 0) and due is max(net, 0), each to two decimals.
C5_MemberSummary ==
    pc = "done" =>
        \A m \in RangeOf(members) :
            LET txs == result.transactions
                paid == SumOver({i \in TxIndices(txs) : txs[i].payer = m},
                                [i \in TxIndices(txs) |-> txs[i].amount])
                consumed == SumOver({i \in TxIndices(txs) : m \in DOMAIN txs[i].shares},
                                    [i \in TxIndices(txs) |->
                                        IF m \in DOMAIN txs[i].shares
                                        THEN txs[i].shares[m] ELSE 0])
                owed_to == SumOver({i \in 1..Len(debts) : debts[i].to = m},
                                   [i \in 1..Len(debts) |-> debts[i].amount])
                owed_by == SumOver({i \in 1..Len(debts) : debts[i].from = m},
                                   [i \in 1..Len(debts) |-> debts[i].amount])
                s == result.members[m]
            IN  /\ \E up \in BOOLEAN : s.paid = Round2(paid, up)
                /\ \E up \in BOOLEAN : s.consumed = Round2(consumed, up)
                /\ \E up \in BOOLEAN :
                      s.net = Round2(paid - consumed + owed_to - owed_by, up)
                /\ s.owes = Max(0 - s.net, 0)
                /\ s.due = Max(s.net, 0)

\* a result with a payment and an explicit debt that both move the same
\* member's net
C5_Witness ==
    /\ pc = "done"
    /\ Len(transactions) = 1
    /\ Len(debts) = 1
    /\ debts[1].from # debts[1].to
    /\ debts[1].from \in DOMAIN transactions[1].shares
    /\ result.members[debts[1].from].owes > result.members[debts[1].from].consumed

\* the roster members other than p that the line l names
NamedOthers(l, p) == {n \in RangeOf(members) : n # p /\ n \in RangeOf(l)}

\* C6: beneficiary rule - the beneficiaries of every payment are exactly the
\* roster members other than the payer that the line names when it names any,
\* and otherwise exactly all roster members except the payer.
C6_BeneficiaryRule ==
    \A i \in 1..Len(transactions) :
        LET tx == transactions[i]
            named == NamedOthers(tx.description, tx.payer)
            b == tx.beneficiaries
        IN  /\ \A j, k \in 1..Len(b) : j # k => b[j] # b[k]
            /\ RangeOf(b) = IF named # {} THEN named
                            ELSE RangeOf(members) \ {tx.payer}

\* two payments on a roster of three: one names a single other member, one
\* names nobody else
C6_Witness ==
    /\ Len(members) = 3
    /\ Len(transactions) = 2
    /\ NamedOthers(transactions[1].description, transactions[1].payer) # {}
    /\ Len(transactions[1].beneficiaries) = 1
    /\ NamedOthers(transactions[2].description, transactions[2].payer) = {}
    /\ Len(transactions[2].beneficiaries) = 2

\* C23: payer is never a beneficiary - no Transaction lists its payer among
\* its beneficiaries or as a key of its shares, so a member who made every
\* payment of the text has consumed nothing.
C23_PayerNotBeneficiary ==
    /\ \A i \in 1..Len(transactions) :
          /\ transactions[i].payer \notin RangeOf(transactions[i].beneficiaries)
          /\ transactions[i].payer \notin DOMAIN transactions[i].shares
    /\ pc = "done" =>
          \A m \in RangeOf(members) :
              (\A i \in 1..Len(transactions) : transactions[i].payer = m) =>
                  result.members[m].consumed = 0

\* the analysis of two payments by the same member on a roster of three, one
\* naming another member and one naming nobody else: the payer has paid and
\* consumed nothing, the others have consumed
C23_Witness ==
    /\ pc = "done"
    /\ Len(members) = 3
    /\ Len(transactions) = 2
    /\ transactions[1].payer = transactions[2].payer
    /\ Len(transactions[1].beneficiaries) = 1
    /\ Len(transactions[2].beneficiaries) = 2
    /\ result.members[transactions[1].payer].paid > 0
    /\ result.members[transactions[1].payer].consumed = 0
    /\ \A m \in RangeOf(members) \ {transactions[1].payer} :
           result.members[m].consumed > 0

\* C24: no self-directed debt - no explicit Debt produced by _parse_owes_line
\* has from = to; a line "<D> owes <C> <amount>" with D and C distinct roster
\* members never resolves debtor and creditor to the same member.
C24_NoSelfDebt ==
    \A i \in 1..Len(debts) : debts[i].from # debts[i].to

\* the rules of the per-line decision procedure, as the claim words them
PaymentRule(l) ==
    /\ \E n \in RangeOf(members) : n \in RangeOf(l)
    /\ "paid" \in RangeOf(l)
    /\ \E i \in 1..Len(l) : l[i] \in NumTokens

DebtRule(l) ==
    /\ "owes" \in RangeOf(l) \/ "madyun" \in RangeOf(l)
    /\ \E n \in RangeOf(members) : n \in RangeOf(l)
    /\ \/ \E i \in 1..Len(l) : \E j \in (i + 1)..Len(l) :
             l[i] = "owes" /\ l[j] \in RangeOf(members)
       \/ /\ "li" \in RangeOf(l)
          /\ Cardinality(RangeOf(members) \cap RangeOf(l)) >= 2
    /\ \E i \in 1..Len(l) : l[i] \in NumTokens

LoanRule(l) ==
    /\ "loan" \in RangeOf(l)
    /\ \E n \in RangeOf(members) : n \in RangeOf(l)

\* the records a step adds
Added(old, new) == Len(new) - Len(old)

\* C7: classification precedence - every line adds at most one record, chosen
\* by the first matching rule in the order Payment, explicit Debt, Loan: a
\* payment line adds only a Transaction even when it also holds "owes" or
\* "loan", and a line that adds a Debt adds no Loan.
C7_Precedence ==
    [][nlines' = nlines + 1 =>
        LET l == line'
            tx == Added(transactions, transactions')
            db == Added(debts, debts')
            ln == Added(loans, loans')
        IN  /\ tx \in {0, 1} /\ db \in {0, 1} /\ ln \in {0, 1}
            /\ tx + db + ln <= 1
            /\ PaymentRule(l) => tx = 1
            /\ (~PaymentRule(l) /\ DebtRule(l)) => db = 1
            /\ (~PaymentRule(l) /\ ~DebtRule(l) /\ LoanRule(l)) => ln = 1
            /\ (~PaymentRule(l) /\ ~DebtRule(l) /\ ~LoanRule(l)) => tx + db + ln = 0
      ]_vars

\* a line with a member, "paid", "owes" and an amount was consumed as a payment,
\* after a line with "owes" and "loan" was consumed as a debt
C7_Witness ==
    /\ nlines = 2
    /\ "paid" \in RangeOf(line) /\ "owes" \in RangeOf(line)
    /\ Len(transactions) = 1
    /\ transactions[1].description = line
    /\ Len(debts) = 1
    /\ loans = <<>>

\* C8: explicit debt resolution - a line "<D> owes <C> <amount>", D and C
\* distinct roster members, records a Debt from D to C, for every order of D
\* and C in the roster.
C8_DebtResolution ==
    (/\ nlines >= 1
     /\ Len(line) = 4
     /\ line[2] = "owes"
     /\ line[1] # line[3]
     /\ {line[1], line[3]} \subseteq RangeOf(members)
     /\ line[4] \in NumTokens)
    => /\ debts # <<>>
       /\ debts[Len(debts)].from = line[1]
       /\ debts[Len(debts)].to = line[3]

\* the monthly payments of the loan records ls whose borrower is m
LoanPayments(ls, m) ==
    SumOver({i \in 1..Len(ls) : ls[i].borrower = m},
            [i \in 1..Len(ls) |-> ls[i].monthly_payment])

\* C11: loan monthly obligation propagation - in every analysis result, for
\* every roster member m, the summary's monthly_obligations of m is the sum of
\* monthly_payment over the loan records whose borrower is m (0 without one).
C11_MonthlyObligations ==
    pc = "done" =>
        \A m \in RangeOf(members) :
            \E up \in BOOLEAN :
                result.members[m].monthly_obligations
                    = Round2(LoanPayments(result.loans, m), up)

\* the positions of the numerals of the line l, and the k-th numeral's value
NumeralPositions(l) == {i \in 1..Len(l) : l[i] \in NumTokens}

NthAmount(l, k) ==
    Value(l[CHOOSE i \in NumeralPositions(l) :
                Cardinality({j \in NumeralPositions(l) : j <= i}) = k])

\* C12: loan amount extraction - a loan record made from a line with two
\* amounts has the first amount as principal, and as monthly_payment the second
\* amount when the line has a month keyword and zero otherwise.
C12_LoanAmounts ==
    \A i \in 1..Len(loans) :
        LET l == loans[i].description
        IN  Cardinality(NumeralPositions(l)) = 2 =>
              /\ loans[i].principal = NthAmount(l, 1)
              /\ loans[i].monthly_payment =
                    IF "month" \in RangeOf(l) \/ "monthly" \in RangeOf(l)
                    THEN NthAmount(l, 2) ELSE 0

\* C14: lines without an amount are skipped - a line with no numeric token
\* adds no transaction, no debt and no loan record, whatever keywords and
\* member names it holds (so the result is that of the text without the line).
C14_NoAmountSkipped ==
    [][(nlines' = nlines + 1 /\ NumeralPositions(line') = {}) =>
          /\ transactions' = transactions
          /\ debts' = debts
          /\ loans' = loans
      ]_vars

\* an "owes" line (no payment, no loan) with one amount whose first word is a
\* roster member and which names no roster member after "owes"
OwesNoCreditor(l) ==
    /\ Len(l) >= 3
    /\ l[2] = "owes"
    /\ l[1] \in RangeOf(members)
    /\ RangeOf(SubSeq(l, 3, Len(l))) \cap (RangeOf(members) \cup {"owes"}) = {}
    /\ RangeOf(l) \cap {"paid", "loan"} = {}
    /\ Cardinality(NumeralPositions(l)) = 1
    /\ RangeOf(l) \cap Malformed = {}

\* C16: Unknown sentinel - an "owes" line with an amount and a resolvable debtor
\* but no resolvable creditor records a debt of that amount from the debtor to
\* "Unknown"; the line is not dropped.
C16_UnknownSentinel ==
    [][(nlines' = nlines + 1 /\ OwesNoCreditor(line')) =>
          \E up \in BOOLEAN :
              debts' = Append(debts, [from |-> line'[1], to |-> "Unknown",
                                      amount |-> Round2(NthAmount(line', 1), up)])
      ]_vars

\* C19: transaction per amount-bearing line - a line with an extractable amount
\* appends exactly one record to the transactions, after those of the earlier
\* lines, carrying the line's text, amount and category, whether or not the
\* line names a roster member or holds the token "paid"; a line without an
\* amount appends none.
C19_TransactionPerAmountLine ==
    [][nlines' = nlines + 1 =>
          IF ExtractNumber(line') # None
          THEN /\ Len(transactions') = Len(transactions) + 1
               /\ SubSeq(transactions', 1, Len(transactions)) = transactions
               /\ LET tx == transactions'[Len(transactions')]
                  IN  /\ tx.description = line'
                      /\ tx.amount = ExtractNumber(line')
                      /\ tx.category = GuessCategory(line')
          ELSE transactions' = transactions
      ]_vars

----------------------------------------------------------------------------
(* Ledger: src/familybot.py lines 76-114 *)

EmptyLedger == <<>>

\* self.debts[debtor].get(creditor, 0.0), and 0 for a debtor without entries
Entry(L, debtor, creditor) ==
    IF debtor \in DOMAIN L /\ creditor \in DOMAIN L[debtor]
    THEN L[debtor][creditor] ELSE 0

HasEntry(L, debtor, creditor) ==
    debtor \in DOMAIN L /\ creditor \in DOMAIN L[debtor]

\* self.debts[debtor][creditor] = v, after self.debts.setdefault(debtor, {})
SetEntry(L, debtor, creditor, v) ==
    LET inner == IF debtor \in DOMAIN L THEN L[debtor] ELSE <<>>
        inner2 == [c \in DOMAIN inner \cup {creditor} |->
                      IF c = creditor THEN v ELSE inner[c]]
    IN  [d \in DOMAIN L \cup {debtor} |-> IF d = debtor THEN inner2 ELSE L[d]]

\* Ledger.add_debt, lines 80-84
AddDebt(L, debtor, creditor, amount) ==
    IF amount <= 0 THEN L
    ELSE SetEntry(L, debtor, creditor, Entry(L, debtor, creditor) + amount)

\* Ledger.reduce_debt, lines 86-91
ReduceDebt(L, debtor, creditor, amount) ==
    IF amount <= 0 THEN L
    ELSE IF ~HasEntry(L, debtor, creditor) THEN L
    ELSE SetEntry(L, debtor, creditor, Max(L[debtor][creditor] - amount, 0))

\* the pairs <<debtor, creditor>> the ledger stores
Pairs(L) == UNION {{<<d, c>> : c \in DOMAIN L[d]} : d \in DOMAIN L}

----------------------------------------------------------------------------
(* The ledger agent: src/familybot.py lines 27-73 and 117-285 *)

DEFAULT_CURRENCY == "AED"

\* str.title() of one token; names and numerals are unchanged by it
Title(t) ==
    CASE t = "alex" -> "Alex"
      [] t = "jamie" -> "Jamie"
      [] t = "groceries" -> "Groceries"
      [] t = "paid" -> "Paid"
      [] t = "owes" -> "Owes"
      [] t = "hello" -> "Hello"
      [] t = "loan" -> "Loan"
      [] t = "reimbursed" -> "Reimbursed"
      [] t = "back" -> "Back"
      [] t = "he" -> "He"
      [] t = "for" -> "For"
      [] t = "and" -> "And"
      [] t = "took" -> "Took"
      [] t = "monthly" -> "Monthly"
      [] t = "everyone" -> "Everyone"
      [] t = "rent" -> "Rent"
      [] t = "electricity" -> "Electricity"
      [] t = "education" -> "Education"
      [] t = "AED" -> "Aed"
      [] t = "USD" -> "Usd"
      [] t = "EUR" -> "Eur"
      [] OTHER -> t

RECURSIVE NormalizeName(_)
\* _normalize_name of a piece of text: its words, title-cased, joined by one space
NormalizeName(toks) ==
    IF toks = <<>> THEN ""
    ELSE IF Len(toks) = 1 THEN Title(toks[1])
    ELSE Title(toks[1]) \o " " \o NormalizeName(Tail(toks))

\* _find_members_in_text: the roster members named in the text, in roster order
FindMembersInText(toks, roster) ==
    FilterRoster(roster, {n \in Names : \E i \in 1..Len(toks) : Title(toks[i]) = n})

\* _extract_amount: float() of the first digit run of the line, or None
ExtractAmount(l) ==
    LET idx == {i \in 1..Len(l) : l[i] \in DigitRuns}
    IN  IF idx = {} THEN None
        ELSE Value(l[CHOOSE i \in idx : \A j \in idx : i <= j])

\* float() raises ValueError, and nothing catches it: in _extract_amount (line
\* 42) when the first digit run of the line is malformed, and in
\* _extract_amounts_with_currency (line 49), which _parse_loan_line calls for
\* a loan line, when any digit run of the line is
RaisesValueError(l) ==
    LET idx == {i \in 1..Len(l) : l[i] \in DigitRuns}
    IN  /\ idx # {}
        /\ \/ l[CHOOSE i \in idx : \A j \in idx : i <= j] \in Malformed
           \/ ("loan" \in RangeOf(l) \/ "qard" \in RangeOf(l))
              /\ \E i \in idx : l[i] \in Malformed

AedTokens == {"AED", "aed", "Dh", "dirham"}
UsdTokens == {"$", "USD", "usd"}
EurTokens == {"EUR", "eur"}
\* the alternatives of the currency group of AMOUNT_PATTERN
CurrencyTokens == {"$", "USD", "EUR", "AED", "Dh"}

\* _detect_currency, lines 56-64
DetectCurrency(toks) ==
    IF RangeOf(toks) \cap AedTokens # {} THEN "AED"
    ELSE IF RangeOf(toks) \cap UsdTokens # {} THEN "USD"
    ELSE IF RangeOf(toks) \cap EurTokens # {} THEN "EUR"
    ELSE DEFAULT_CURRENCY

RECURSIVE AmountsFrom(_, _)
\* _extract_amounts_with_currency: <<amount, currency>> of every digit run from
\* position i on; the currency hint is the currency token right before the run
AmountsFrom(l, i) ==
    IF i > Len(l) THEN <<>>
    ELSE IF l[i] \in DigitRuns
    THEN <<<<Value(l[i]),
             IF i > 1 /\ l[i - 1] \in CurrencyTokens
             THEN DetectCurrency(<<l[i - 1]>>) ELSE DetectCurrency(l)>>>>
         \o AmountsFrom(l, i + 1)
    ELSE AmountsFrom(l, i + 1)

ExtractAmountsWithCurrency(l) == AmountsFrom(l, 1)

\* the position of the first token kw of the text, or Len + 1
FirstIndex(toks, kw) ==
    IF kw \in RangeOf(toks)
    THEN CHOOSE k \in 1..Len(toks) :
            toks[k] = kw /\ \A j \in 1..(k - 1) : toks[j] # kw
    ELSE Len(toks) + 1

\* the position of the last token kw of the text, or 0
LastIndex(toks, kw) ==
    IF kw \in RangeOf(toks)
    THEN CHOOSE k \in 1..Len(toks) :
            toks[k] = kw /\ \A j \in (k + 1)..Len(toks) : toks[j] # kw
    ELSE 0

\* _handle_owes, lines 191-198
HandleOwes(L, roster, l, amount) ==
    LET i == FirstIndex(l, "owes")
        rest == SubSeq(l, i + 1, Len(l))
        part0 == SubSeq(l, 1, i - 1)
        part1 == SubSeq(rest, 1, FirstIndex(rest, "owes") - 1)
        debtor_name == NormalizeName(part0)
        creditor_candidates == FindMembersInText(part1, roster)
        creditor_name == IF creditor_candidates # <<>>
                         THEN creditor_candidates[1] ELSE "Unknown"
    IN  AddDebt(L, debtor_name, creditor_name, amount)

\* _handle_reimbursement, lines 200-207
HandleReimbursement(L, roster, l, amount) ==
    LET debtor_name == NormalizeName(<<l[1]>>)
        creditor_candidates == FindMembersInText(l, roster)
        creditor_name == IF Len(creditor_candidates) > 1
                         THEN creditor_candidates[2] ELSE "Unknown"
    IN  ReduceDebt(L, debtor_name, creditor_name, amount)

RECURSIVE Chunks(_, _)
\* re.split(r",|and", remainder): the pieces between the separators
Chunks(toks, cur) ==
    IF toks = <<>> THEN <<cur>>
    ELSE IF Head(toks) \in {"and", ","} THEN <<cur>> \o Chunks(Tail(toks), <<>>)
    ELSE Chunks(Tail(toks), Append(cur, Head(toks)))

RECURSIVE NamesOfChunks(_, _)
\* lines 235-243; a piece that names no member is kept as a name of its own
\* (in the normalised form _handle_payment gives it at line 221)
NamesOfChunks(chunks, roster) ==
    IF chunks = <<>> THEN <<>>
    ELSE LET token == Head(chunks)
             name_match == FindMembersInText(token, roster)
         IN  (IF token = <<>> THEN <<>>
              ELSE IF name_match # <<>> THEN name_match
              ELSE <<NormalizeName(token)>>)
             \o NamesOfChunks(Tail(chunks), roster)

\* _extract_beneficiaries, lines 226-244
ExtractBeneficiaries(roster, l) ==
    LET last == LastIndex(l, "for")
        remainder == SubSeq(l, last + 1, Len(l))
    IN  IF last = 0 THEN <<>>
        ELSE IF RangeOf(remainder) \cap {"everyone", "family", "all"} # {} THEN roster
        ELSE NamesOfChunks(Chunks(remainder, <<>>), roster)

RECURSIVE AddShares(_, _, _, _)
\* the loop of lines 220-224
AddShares(L, beneficiaries, payer_name, split_amount) ==
    IF beneficiaries = <<>> THEN L
    ELSE AddShares(
            IF Head(beneficiaries) = payer_name THEN L
            ELSE AddDebt(L, Head(beneficiaries), payer_name, split_amount),
            Tail(beneficiaries), payer_name, split_amount)

\* _handle_payment, lines 209-224
HandlePayment(L, roster, l, amount, up) ==
    LET payer_name == NormalizeName(<<l[1]>>)
        named == ExtractBeneficiaries(roster, l)
        beneficiaries == IF named = <<>> THEN roster ELSE named
    IN  IF beneficiaries = <<>> THEN L
        ELSE AddShares(L, beneficiaries, payer_name,
                       RoundDivPos(amount, Len(beneficiaries), up))

\* _is_loan_line
IsLoanLine(l) == "loan" \in RangeOf(l) \/ "qard" \in RangeOf(l)

\* the ledger agent's _parse_loan_line, lines 249-275: <<loan>>, or <<>> for None
LedgerParseLoanLine(l) ==
    LET amounts == ExtractAmountsWithCurrency(l)
    IN  IF ~IsLoanLine(l) \/ amounts = <<>> THEN <<>>
        ELSE <<[borrower |-> NormalizeName(<<l[1]>>),
                lender |-> "Bank",
                principal |-> amounts[1][1],
                currency |-> amounts[1][2],
                monthly_payment |->
                    IF Len(amounts) > 1
                       /\ ("monthly" \in RangeOf(l) \/ "shahri" \in RangeOf(l))
                    THEN amounts[2][1] ELSE None]>>

\* "reimbursed" in normalized_line or "paid back" in normalized_line
IsReimbursementLine(l) ==
    \/ "reimbursed" \in RangeOf(l)
    \/ \E i \in 1..(Len(l) - 1) : l[i] = "paid" /\ l[i + 1] = "back"

\* lines 142-147: monthly_obligations after a loan
AddObligation(mo, loan) ==
    IF loan.monthly_payment = None \/ loan.monthly_payment = 0 THEN mo
    ELSE [b \in DOMAIN mo \cup {loan.borrower} |->
             (IF b \in DOMAIN mo THEN mo[b] ELSE 0)
             + (IF b = loan.borrower THEN loan.monthly_payment ELSE 0)]

\* CATEGORY_KEYWORDS of src/familybot__init__.py, lines 25-35: the keyword
\* groups in their order, each with its category (the Arabic tags are written
\* in English here)
CATEGORY_KEYWORDS ==
    << <<{"rent", "apartment"}, "rent">>,
       <<{"electricity"}, "electricity">>,
       <<{"water"}, "water">>,
       <<{"etisalat", "du", "internet"}, "telecom">>,
       <<{"salik"}, "salik">>,
       <<{"parking"}, "parking">>,
       <<{"grocery", "groceries", "supermarket"}, "groceries">>,
       <<{"school", "education"}, "school">>,
       <<{"loan"}, "loan">> >>

GENERAL_CATEGORY == "general"

RECURSIVE CategorizeFrom(_, _)
\* the loop of _categorize from group g on
CategorizeFrom(l, g) ==
    IF g > Len(CATEGORY_KEYWORDS) THEN GENERAL_CATEGORY
    ELSE IF \E kw \in CATEGORY_KEYWORDS[g][1] : HasKeyword(l, kw)
    THEN CATEGORY_KEYWORDS[g][2]
    ELSE CategorizeFrom(l, g + 1)

\* the category of the last group with a keyword in the line
CategorizeLast(l) ==
    LET present == {g \in 1..Len(CATEGORY_KEYWORDS) :
                      \E kw \in CATEGORY_KEYWORDS[g][1] : HasKeyword(l, kw)}
    IN  IF present = {} THEN GENERAL_CATEGORY
        ELSE CATEGORY_KEYWORDS[CHOOSE g \in present :
                                 \A h \in present : h <= g][2]

\* _categorize, src/familybot__init__.py lines 372-377
Categorize(l) == CategorizeFrom(l, 1)

\* One iteration of the loop of the ledger agent's analyze (src/familybot.py
\* lines 131-159; src/familybot__init__.py lines 143-181, where lines 148-158
\* also record the line in transactions):
\* <<ledger, loans, monthly_obligations, detected_currencies, transactions>>
\* after the line
HandleLineOf(L, ls, mo, dc, txs, roster, l, up) ==
    LET amount == ExtractAmount(l)
        loan == LedgerParseLoanLine(l)
        dc2 == Append(dc, DetectCurrency(l))
        txs2 == Append(txs, [text |-> l, amount |-> amount,
                             currency |-> DetectCurrency(l),
                             category |-> Categorize(l)])
    IN  IF amount = None THEN <<L, ls, mo, dc, txs>>
        ELSE IF IsLoanLine(l)
        THEN IF loan # <<>>
             THEN <<L, ls \o loan, AddObligation(mo, loan[1]), dc2, txs2>>
             ELSE <<L, ls, mo, dc2, txs2>>
        ELSE IF "owes" \in RangeOf(l)
        THEN <<HandleOwes(L, roster, l, amount), ls, mo, dc2, txs2>>
        ELSE IF IsReimbursementLine(l)
        THEN <<HandleReimbursement(L, roster, l, amount), ls, mo, dc2, txs2>>
        ELSE IF "paid" \in RangeOf(l)
        THEN <<HandlePayment(L, roster, l, amount, up), ls, mo, dc2, txs2>>
        ELSE <<L, ls, mo, dc2, txs2>>

\* Ledger.totals, lines 93-106: one member's entry
OwesOf(L, member) ==
    IF member \in DOMAIN L THEN SumOver(DOMAIN L[member], L[member]) ELSE 0

DueOf(L, member) ==
    SumOver({d \in DOMAIN L : member \in DOMAIN L[d]},
            [d \in DOMAIN L |-> Entry(L, d, member)])

\* U holds the roundings <<field, member>> that go up on a tie
Totals(L, member, U) ==
    [owes |-> Round2(OwesOf(L, member), <<"owes", member>> \in U),
     due |-> Round2(DueOf(L, member), <<"due", member>> \in U),
     net |-> Round2(DueOf(L, member) - OwesOf(L, member), <<"net", member>> \in U)]

\* Ledger.settle_suggestions, lines 108-114 (as a set: the order of the dict is
\* not kept)
SettleSuggestions(L, U) ==
    {<<k[1], k[2], Round2(L[k[1]][k[2]], k \in U)>> :
        k \in {p \in Pairs(L) : L[p[1]][p[2]] > 0}}

\* ResolveCurrency that reports the first detected currency instead of "mixed"
ResolveCurrencyFirst(dc) ==
    IF dc = <<>> THEN DEFAULT_CURRENCY ELSE dc[1]

\* lines 174-180
ResolveCurrency(dc) ==
    IF RangeOf(dc) = {} THEN DEFAULT_CURRENCY
    ELSE IF Cardinality(RangeOf(dc)) = 1 THEN CHOOSE c \in RangeOf(dc) : TRUE
    ELSE "mixed"

\* the roundings of the ledger agent's analyze that meet an exact tie
LedgerTieSites(L, mo, roster) ==
    {<<"owes", m>> : m \in {n \in RangeOf(roster) : IsTie(OwesOf(L, n))}}
    \cup {<<"due", m>> : m \in {n \in RangeOf(roster) : IsTie(DueOf(L, n))}}
    \cup {<<"net", m>> : m \in {n \in RangeOf(roster) :
                                    IsTie(DueOf(L, n) - OwesOf(L, n))}}
    \cup {<<"monthly", m>> : m \in {n \in RangeOf(roster) \cap DOMAIN mo : IsTie(mo[n])}}
    \cup {k \in Pairs(L) : IsTie(L[k[1]][k[2]])}

\* the ledger agent's analyze, lines 161-189: the result (with the
\* transactions of src/familybot__init__.py line 211)
LedgerSummarize(L, ls, mo, dc, txs, roster, U) ==
    LET summary == [m \in RangeOf(roster) |->
                      [owes |-> Totals(L, m, U).owes,
                       due |-> Totals(L, m, U).due,
                       net |-> Totals(L, m, U).net,
                       monthly_obligations |->
                           Round2(IF m \in DOMAIN mo THEN mo[m] ELSE 0,
                                  <<"monthly", m>> \in U)]]
    IN  [summary |-> summary,
         settlement_suggestions |-> SettleSuggestions(L, U),
         paid_members |-> FilterRoster(roster, {m \in RangeOf(roster) : summary[m].due > 0}),
         unpaid_members |-> FilterRoster(roster, {m \in RangeOf(roster) : summary[m].owes > 0}),
         currency |-> ResolveCurrency(dc),
         loans |-> ls,
         transactions |-> txs]

----------------------------------------------------------------------------
(* The ledger agent as a state machine *)

ReimbursementLines ==
    {<<d, "reimbursed", c, a>> : d \in Names, c \in Names \ {"Sam"}, a \in {"90", "10.005"}}
    \cup {<<"Alex", "paid", "back", "Jamie", "10.005">>,
          <<"Jamie", "paid", "back", "Alex", "10.005">>}

LedgerLines ==
    {<<d, "owes", c, "90">> : d \in Names, c \in Names}
    \cup {<<"Alex", "owes", "90">>, <<"alex", "owes", "jamie", "90">>,
          <<"hello", "Alex", "owes", "Jamie", "90">>}
    \cup ReimbursementLines
    \cup {<<p, "paid", "90">> : p \in Names}
    \cup {<<p, "paid", "90", "for", b>> : p \in Names, b \in Names \ {"Sam"}}
    \cup {<<"Alex", "paid", "90", "for", "Jamie", "and", "Sam">>,
          <<"Sam", "paid", "90", "for", "Alex", "and", "Jamie">>,
          <<"Alex", "paid", "90", "for", "groceries">>,
          <<"Alex", "paid", "90", "for", "rent">>,
          <<"Alex", "paid", "0.03", "for", "everyone">>,
          <<"Alex", "paid", "$", "90">>,
          <<"Alex", "paid", "90", "EUR">>}
    \cup {<<"Alex", "took", "loan", "90", "AED", "monthly", "0.03">>,
          <<"Jamie", "took", "loan", "$", "90">>,
          <<"Alex", "reimbursed", "Jamie", "90", "he", "owes">>}
    \cup {<<"Alex", "paid", "1.2.3">>, <<"Alex", "paid", "90", "1.2.3">>,
          <<"Alex", "took", "loan", "90", "monthly", "1.2.3">>}
    \cup {<<"Alex", "paid">>, <<"hello">>, <<"loan">>}

LedgerAgentInit ==
    /\ members \in Rosters
    /\ pc = "parse"
    /\ nlines = 0
    /\ line = <<>>
    /\ transactions = <<>>
    /\ debts = <<>>
    /\ loans = <<>>
    /\ result = NoResult
    /\ ledger = EmptyLedger
    /\ call = <<>>
    /\ detected_currencies = <<>>
    /\ monthly_obligations = <<>>
    /\ settle = <<>>
    /\ NoBot

\* one iteration of `for line in lines` of the ledger agent's analyze
HandleLine ==
    /\ pc = "parse"
    /\ nlines < MaxLines
    /\ \E l \in LedgerLines, up \in BOOLEAN :
         /\ line' = l
         /\ IF RaisesValueError(l)
            THEN \* the exception leaves analyze: no result is returned
                 /\ pc' = "error"
                 /\ UNCHANGED <<ledger, loans, monthly_obligations,
                                detected_currencies, transactions>>
            ELSE LET r == HandleLineOf(ledger, loans, monthly_obligations,
                                       detected_currencies, transactions,
                                       members, l, up)
                 IN  /\ ledger' = r[1]
                     /\ loans' = r[2]
                     /\ monthly_obligations' = r[3]
                     /\ detected_currencies' = r[4]
                     /\ transactions' = r[5]
                     /\ pc' = pc
    /\ nlines' = nlines + 1
    /\ UNCHANGED <<botvars, members, debts, result, call, settle>>

\* the text is exhausted: the ledger agent's analyze aggregates and returns
LedgerAnalyze ==
    /\ pc = "parse"
    /\ \E U \in SUBSET LedgerTieSites(ledger, monthly_obligations, members) :
         result' = LedgerSummarize(ledger, loans, monthly_obligations,
                                   detected_currencies, transactions, members, U)
    /\ pc' = "done"
    /\ UNCHANGED <<botvars, members, nlines, line, transactions, debts, loans, ledger, call,
                   detected_currencies, monthly_obligations, settle>>

LedgerAgentNext == HandleLine \/ LedgerAnalyze

SpecLedgerAgent == LedgerAgentInit /\ [][LedgerAgentNext]_vars

----------------------------------------------------------------------------
(* Properties of the ledger agent *)

\* the lines "<D> reimbursed <C> <a>" and "<D> paid back <C> <a>" whose first
\* named member D and second named member C are distinct roster members
ReimbursementOf(l) ==
    /\ l \in ReimbursementLines
    /\ l[1] # l[Len(l) - 1]
    /\ {l[1], l[Len(l) - 1]} \subseteq RangeOf(members)

AllParties(L) == DOMAIN L \cup UNION {DOMAIN L[d] : d \in DOMAIN L}

\* C25: Ledger parties are known - after analysing any text, every debtor and
\* every creditor key of the Ledger, and so every party of
\* settlement_suggestions, is a roster member or "Unknown".
C25_LedgerPartiesKnown ==
    /\ AllParties(ledger) \subseteq RangeOf(members) \cup {"Unknown"}
    /\ pc = "done" =>
          \A k \in 1..Len(result.settlement_suggestions) :
              {result.settlement_suggestions[k][1],
               result.settlement_suggestions[k][2]}
                  \subseteq RangeOf(members) \cup {"Unknown"}

\* C9: reimbursement - a line with "reimbursed" or "paid back" that names
\* roster member D first and roster member C second lowers the entry D -> C by
\* the amount of the line, not below zero, for every order of D and C in the
\* roster, and changes no other entry (it is not handled as a payment).
C9_Reimbursement ==
    [][(nlines' = nlines + 1 /\ ReimbursementOf(line')) =>
        LET D == line'[1]
            C == line'[Len(line') - 1]
            a == Value(line'[Len(line')])
        IN  /\ Entry(ledger', D, C) = Max(Entry(ledger, D, C) - a, 0)
            /\ \A d \in AllParties(ledger) \cup AllParties(ledger') :
               \A c \in AllParties(ledger) \cup AllParties(ledger') :
                   <<d, c>> # <<D, C>> => Entry(ledger', d, c) = Entry(ledger, d, c)
      ]_vars

\* the line carries a currency indicator
HasCurrencySignal(l) == RangeOf(l) \cap (AedTokens \cup UsdTokens \cup EurTokens) # {}

\* the amount-bearing lines consumed so far, and the currencies signalled by
\* those that carry an indicator
AmountLines == {transactions[i].text : i \in 1..Len(transactions)}

SignalledCurrencies ==
    {DetectCurrency(l) : l \in {t \in AmountLines : HasCurrencySignal(t)}}

\* C13: currency resolution - the result currency is the single currency code
\* when all amount-bearing lines signal the same currency, the default AED when
\* no line carries a currency indicator, and "mixed" when more than one
\* distinct currency was detected.
C13_CurrencyResolution ==
    pc = "done" =>
        /\ (/\ AmountLines # {}
            /\ \A l \in AmountLines : HasCurrencySignal(l)
            /\ Cardinality(SignalledCurrencies) = 1)
           => result.currency \in SignalledCurrencies
        /\ (\A l \in AmountLines : ~HasCurrencySignal(l))
           => result.currency = DEFAULT_CURRENCY
        /\ Cardinality(SignalledCurrencies) > 1 => result.currency = "mixed"

\* a text of a dollar line and a euro line was analysed
C13_Witness ==
    /\ pc = "done"
    /\ SignalledCurrencies = {"USD", "EUR"}
    /\ result.currency = "mixed"

\* C15: analyze never fails - for every roster and every text, also one with
\* a numeral-like token that is no well-formed number or with lines naming no
\* member, analyze raises no error: malformed lines are only skipped.
C15_NeverFails == pc # "error"

----------------------------------------------------------------------------
(* Floats                                                                   *)
(*                                                                         *)
(* float() of a digit run of more than 308 digits is inf, so an amount can  *)
(* be inf and a balance inf, -inf or nan (inf - inf).  A float is           *)
(* <<kind, v>>: a finite number of mills, or one of the three special       *)
(* values.                                                                  *)

Fin(n) == <<"fin", n>>
PosInf == <<"+inf", 0>>
NegInf == <<"-inf", 0>>
NaN == <<"nan", 0>>

\* -x
FNeg(x) ==
    CASE x[1] = "fin" -> Fin(0 - x[2])
      [] x[1] = "+inf" -> NegInf
      [] x[1] = "-inf" -> PosInf
      [] OTHER -> NaN

\* a < b: every comparison with nan is False
FLt(a, b) ==
    CASE a[1] = "nan" \/ b[1] = "nan" -> FALSE
      [] a[1] = "fin" /\ b[1] = "fin" -> a[2] < b[2]
      [] a[1] = "-inf" -> b[1] # "-inf"
      [] a[1] = "+inf" -> FALSE
      [] OTHER -> b[1] = "+inf"

\* a <= b
FLe(a, b) == FLt(a, b) \/ (a[1] # "nan" /\ a = b)

\* a - b
FSub(a, b) ==
    CASE a[1] = "nan" \/ b[1] = "nan" -> NaN
      [] a[1] = "fin" /\ b[1] = "fin" -> Fin(a[2] - b[2])
      [] a[1] = "fin" -> FNeg(b)
      [] b[1] = "fin" -> a
      [] OTHER -> IF a = b THEN NaN ELSE a

\* min(a, b): b when b < a, else a
FMin(a, b) == IF FLt(b, a) THEN b ELSE a

\* round(x, 2): inf and nan are unchanged
FRound2(x, up) == IF x[1] = "fin" THEN Fin(Round2(x[2], up)) ELSE x

\* a + b
FAdd(a, b) == FSub(a, FNeg(b))

\* max(a, b): b when b > a, else a
FMax(a, b) == IF FLt(a, b) THEN b ELSE a

----------------------------------------------------------------------------
(* The Ledger under arbitrary calls *)

Parties == {"Alex", "Jamie"}
AmountArgs == {Fin(0 - 5), Fin(0), Fin(3), Fin(6), PosInf, NegInf, NaN}

\* self.debts[debtor].get(creditor, 0.0)
FEntry(L, debtor, creditor) ==
    IF HasEntry(L, debtor, creditor) THEN L[debtor][creditor] ELSE Fin(0)

\* add_debt that first sets the new debt off against the opposite entry
FAddDebtNetted(L, debtor, creditor, amount) ==
    IF FLe(amount, Fin(0)) THEN L
    ELSE IF debtor # creditor /\ HasEntry(L, creditor, debtor)
    THEN SetEntry(L, creditor, debtor,
                  FMax(FSub(L[creditor][debtor], amount), Fin(0)))
    ELSE SetEntry(L, debtor, creditor, FAdd(FEntry(L, debtor, creditor), amount))

\* Ledger.add_debt, lines 80-84, on floats
FAddDebt(L, debtor, creditor, amount) ==
    IF FLe(amount, Fin(0)) THEN L
    ELSE SetEntry(L, debtor, creditor, FAdd(FEntry(L, debtor, creditor), amount))

\* Ledger.reduce_debt, lines 86-91, on floats
FReduceDebt(L, debtor, creditor, amount) ==
    IF FLe(amount, Fin(0)) THEN L
    ELSE IF ~HasEntry(L, debtor, creditor) THEN L
    ELSE SetEntry(L, debtor, creditor,
                  FMax(FSub(L[debtor][creditor], amount), Fin(0)))

LedgerInit ==
    /\ members = <<>>
    /\ pc = "ledger"
    /\ nlines = 0
    /\ line = <<>>
    /\ transactions = <<>>
    /\ debts = <<>>
    /\ loans = <<>>
    /\ result = NoResult
    /\ ledger = EmptyLedger
    /\ call = <<>>
    /\ detected_currencies = <<>>
    /\ monthly_obligations = <<>>
    /\ settle = <<>>
    /\ NoBot

AddDebtCall ==
    /\ pc = "ledger"
    /\ \E d \in Parties, c \in Parties, a \in AmountArgs :
         /\ LET sum == FAdd(FEntry(ledger, d, c), a)
            IN  sum[1] = "fin" => sum[2] <= MaxDebt
         /\ ledger' = FAddDebt(ledger, d, c, a)
         /\ call' = <<"add_debt", d, c, a>>
    /\ UNCHANGED <<botvars, members, pc, nlines, line, transactions, debts, loans, result,
                   detected_currencies, monthly_obligations, settle>>

ReduceDebtCall ==
    /\ pc = "ledger"
    /\ \E d \in Parties, c \in Parties, a \in AmountArgs :
         /\ ledger' = FReduceDebt(ledger, d, c, a)
         /\ call' = <<"reduce_debt", d, c, a>>
    /\ UNCHANGED <<botvars, members, pc, nlines, line, transactions, debts, loans, result,
                   detected_currencies, monthly_obligations, settle>>

LedgerNext == AddDebtCall \/ ReduceDebtCall

SpecLedger == LedgerInit /\ [][LedgerNext]_vars

\* C10: Ledger non-negativity - after any sequence of add_debt and reduce_debt
\* calls with arbitrary arguments (zero and negative amounts, reductions larger
\* than the entry) every stored entry is >= 0, and add_debt decreases no entry.
C10_LedgerNonNegative ==
    /\ [](\A k \in Pairs(ledger) : FLe(Fin(0), ledger[k[1]][k[2]]))
    /\ [][call'[1] = "add_debt" =>
            \A k \in Pairs(ledger) :
                /\ k \in Pairs(ledger')
                /\ ~FLt(ledger'[k[1]][k[2]], ledger[k[1]][k[2]])]_vars

\* every pair other than <<d, c>> is stored before the step exactly when it is
\* stored after it, with the same value
OtherPairsUnchanged(d, c) ==
    \A k \in Pairs(ledger) \cup Pairs(ledger') :
        k # <<d, c>> =>
            /\ k \in Pairs(ledger) /\ k \in Pairs(ledger')
            /\ ledger'[k[1]][k[2]] = ledger[k[1]][k[2]]

\* C27: Ledger frame - add_debt(d, c, a) with a > 0 makes the entry d->c the
\* float sum of its old value and a and leaves every other pair unchanged, the
\* reverse entry included; add_debt and reduce_debt with a <= 0 change nothing;
\* reduce_debt on a pair without entry changes nothing and creates no entry;
\* reduce_debt with a > 0 on an existing entry changes only d->c.
C27_LedgerFrame ==
    [][LET op == call'[1]
           d == call'[2]
           c == call'[3]
           a == call'[4]
       IN  /\ (op = "add_debt" /\ FLt(Fin(0), a)) =>
                 /\ HasEntry(ledger', d, c)
                 /\ ledger'[d][c] = FAdd(FEntry(ledger, d, c), a)
                 /\ OtherPairsUnchanged(d, c)
           /\ FLe(a, Fin(0)) => ledger' = ledger
           /\ (op = "reduce_debt" /\ ~HasEntry(ledger, d, c)) => ledger' = ledger
           /\ (op = "reduce_debt" /\ FLt(Fin(0), a) /\ HasEntry(ledger, d, c)) =>
                 /\ HasEntry(ledger', d, c)
                 /\ OtherPairsUnchanged(d, c)
      ]_vars

\* add_debt("Alex", "Jamie", 3.0) has raised Alex -> Jamie to 6.0 while the
\* opposite entry Jamie -> Alex stands at 3.0
C27_Witness ==
    /\ call = <<"add_debt", "Alex", "Jamie", Fin(3)>>
    /\ HasEntry(ledger, "Alex", "Jamie") /\ ledger["Alex"]["Jamie"] = Fin(6)
    /\ HasEntry(ledger, "Jamie", "Alex") /\ ledger["Jamie"]["Alex"] = Fin(3)

----------------------------------------------------------------------------
(* _compute_settlements on floats, one loop iteration per step              *)

RECURSIVE FInsertDesc(_, _)
FInsertDesc(x, sorted) ==
    IF sorted = <<>> THEN <<x>>
    ELSE IF ~FLt(Head(sorted)[2], x[2])
    THEN <<Head(sorted)>> \o FInsertDesc(x, Tail(sorted))
    ELSE <<x>> \o sorted

RECURSIVE FSortDesc(_)
\* list.sort(key=lambda x: x[1], reverse=True), lines 267-268
FSortDesc(pairs) ==
    IF pairs = <<>> THEN <<>>
    ELSE FInsertDesc(pairs[Len(pairs)], FSortDesc(SubSeq(pairs, 1, Len(pairs) - 1)))

RECURSIVE FCreditorsAbove0(_, _)
\* the members with a net above zero, whatever the tolerance
FCreditorsAbove0(roster, net) ==
    IF roster = <<>> THEN <<>>
    ELSE (IF FLt(Fin(0), net[Head(roster)])
          THEN <<<<Head(roster), net[Head(roster)]>>>> ELSE <<>>)
         \o FCreditorsAbove0(Tail(roster), net)

RECURSIVE FCreditors(_, _)
\* lines 262-264
FCreditors(roster, net) ==
    IF roster = <<>> THEN <<>>
    ELSE (IF FLt(Fin(SettleTolerance), net[Head(roster)])
          THEN <<<<Head(roster), net[Head(roster)]>>>> ELSE <<>>)
         \o FCreditors(Tail(roster), net)

RECURSIVE FDebtors(_, _)
\* lines 265-266
FDebtors(roster, net) ==
    IF roster = <<>> THEN <<>>
    ELSE (IF FLt(net[Head(roster)], Fin(0 - SettleTolerance))
          THEN <<<<Head(roster), FNeg(net[Head(roster)])>>>> ELSE <<>>)
         \o FDebtors(Tail(roster), net)

\* lines 260-271: the locals when the while loop is reached
StartSettle(roster, net) ==
    [net |-> net,
     debtors |-> FSortDesc(FDebtors(roster, net)),
     creditors |-> FSortDesc(FCreditors(roster, net)),
     i |-> 1, j |-> 1, settlements |-> <<>>]

\* line 272: while i < len(debtors) and j < len(creditors) (i, j count from 1 here)
LoopCondition(st) == st.i <= Len(st.debtors) /\ st.j <= Len(st.creditors)

\* lines 273-290: one iteration of the loop
SettleBody(st, up) ==
    LET d_name == st.debtors[st.i][1]
        c_name == st.creditors[st.j][1]
        pay == FRound2(FMin(st.debtors[st.i][2], st.creditors[st.j][2]), up)
        d_amt == FSub(st.debtors[st.i][2], pay)
        c_amt == FSub(st.creditors[st.j][2], pay)
        d_done == FLe(d_amt, Fin(SettleTolerance))
        c_done == FLe(c_amt, Fin(SettleTolerance))
    IN  [net |-> st.net,
         debtors |-> IF d_done THEN st.debtors
                     ELSE [st.debtors EXCEPT ![st.i] = <<d_name, d_amt>>],
         creditors |-> IF c_done THEN st.creditors
                       ELSE [st.creditors EXCEPT ![st.j] = <<c_name, c_amt>>],
         i |-> IF d_done THEN st.i + 1 ELSE st.i,
         j |-> IF c_done THEN st.j + 1 ELSE st.j,
         settlements |-> IF FLt(Fin(0), pay)
                         THEN Append(st.settlements,
                                     [from |-> d_name, to |-> c_name, amount |-> pay])
                         ELSE st.settlements]

\* net balances: amounts around the 0.01 threshold, an exact tie, larger
\* amounts, and the special values
NetValues ==
    {Fin(n) : n \in {0 - 90000, 0 - 45000, 0 - 15, 0 - 10, 0, 10, 15, 45000, 90000}}
    \cup {PosInf, NegInf, NaN}

SettleInit ==
    /\ members \in Rosters
    /\ pc = "settle"
    /\ \E net \in [RangeOf(members) -> NetValues] :
          settle = StartSettle(members, net)
    /\ nlines = 0
    /\ line = <<>>
    /\ transactions = <<>>
    /\ debts = <<>>
    /\ loans = <<>>
    /\ result = NoResult
    /\ ledger = <<>>
    /\ call = <<>>
    /\ detected_currencies = <<>>
    /\ monthly_obligations = <<>>
    /\ NoBot

\* one iteration of the while loop
SettleStep ==
    /\ pc = "settle"
    /\ LoopCondition(settle)
    /\ \E up \in BOOLEAN : settle' = SettleBody(settle, up)
    /\ UNCHANGED <<botvars, members, pc, nlines, line, transactions, debts, loans, result,
                   ledger, call, detected_currencies, monthly_obligations>>

\* lines 52-64 of analyze on floats: owes, due and net of a member with the
\* balance net; round(-net, 2) and round(net, 2) go the same way on a tie
FMemberSummary(net, up) ==
    [net |-> FRound2(net, up),
     owes |-> IF FLt(net, Fin(0)) THEN FRound2(FNeg(net), up) ELSE Fin(0),
     due |-> IF FLt(Fin(0), net) THEN FRound2(net, up) ELSE Fin(0)]

\* line 291: return settlements; analyze goes on with lines 52-64
SettleReturn ==
    /\ pc = "settle"
    /\ ~LoopCondition(settle)
    /\ pc' = "settled"
    /\ \E up \in [RangeOf(members) -> BOOLEAN] :
         result' = [members |-> [m \in RangeOf(members) |->
                                   FMemberSummary(settle.net[m], up[m])],
                    settlements |-> settle.settlements]
    /\ UNCHANGED <<botvars, members, nlines, line, transactions, debts, loans,
                   ledger, call, detected_currencies, monthly_obligations, settle>>

SettleNext == SettleStep \/ SettleReturn

SpecSettle ==
    SettleInit /\ [][SettleNext]_vars /\ WF_vars(SettleStep) /\ WF_vars(SettleReturn)

\* C2: balance sign exclusivity - in every analysis result, for every member,
\* owes > 0 implies due = 0, due > 0 implies owes = 0, and both are zero exactly
\* when the member's net is zero.
C2_SignExclusivity ==
    pc = "settled" =>
        \A m \in RangeOf(members) :
            LET s == result.members[m]
            IN  /\ FLt(Fin(0), s.owes) => s.due = Fin(0)
                /\ FLt(Fin(0), s.due) => s.owes = Fin(0)
                /\ (s.owes = Fin(0) /\ s.due = Fin(0)) <=> (s.net = Fin(0))

\* C17: settlement loop termination and size - for every map of net balances
\* the loop terminates, every iteration advances the debtor pointer or the
\* creditor pointer, and at most |debtors| + |creditors| - 1 settlements are
\* emitted (none when a side is empty).
C17_SettleTerminates ==
    /\ [][(pc = "settle" /\ pc' = "settle") =>
             (settle'.i > settle.i \/ settle'.j > settle.j)]_vars
    /\ [](Len(settle.settlements)
            <= IF settle.debtors = <<>> \/ settle.creditors = <<>> THEN 0
               ELSE Len(settle.debtors) + Len(settle.creditors) - 1)
    /\ <>(pc = "settled")

\* C21: settlement well-formedness - every settlement emitted has an amount
\* above zero, comes from a member whose net is below -0.01 and goes to a
\* member whose net is above +0.01; so no settlement has from = to, no member
\* is the from of one settlement and the to of another, and a member with
\* |net| <= 0.01 is in no settlement.
C21_SettlementWellFormed ==
    LET ss == settle.settlements
        low(m) == FLt(settle.net[m], Fin(0 - SettleTolerance))
        high(m) == FLt(Fin(SettleTolerance), settle.net[m])
    IN  /\ \A k \in 1..Len(ss) :
              /\ FLt(Fin(0), ss[k].amount)
              /\ ss[k].from \in RangeOf(members) /\ low(ss[k].from)
              /\ ss[k].to \in RangeOf(members) /\ high(ss[k].to)
              /\ ss[k].from # ss[k].to
        /\ \A k, n \in 1..Len(ss) : ss[k].from # ss[n].to
        /\ \A m \in RangeOf(members) :
              (~low(m) /\ ~high(m)) =>
                  \A k \in 1..Len(ss) : ss[k].from # m /\ ss[k].to # m

\* the loop has returned a settlement between two members of a roster whose
\* third member, with a net of exactly 0.01, takes part in none
C21_Witness ==
    /\ pc = "settled"
    /\ Len(settle.settlements) = 1
    /\ settle.settlements[1].amount = Fin(45000)
    /\ \E m \in RangeOf(members) :
          /\ settle.net[m] = Fin(SettleTolerance)
          /\ settle.settlements[1].from # m
          /\ settle.settlements[1].to # m

----------------------------------------------------------------------------
(* The two category classifiers as functions of a line                     *)

\* the words of the category tables that occur in the lines below, with two
\* words that hold a keyword as a substring and a word of no group
CategoryWords ==
    {"rent", "apartment", "grocery", "groceries", "supermarket", "school",
     "education", "salik", "parking", "electric", "electricity", "water",
     "etisalat", "du", "internet", "loan", "hello"}

\* payment lines with one or two words that may belong to category groups
CategoryLines ==
    {<<"Alex", "paid", "90", "for", w>> : w \in CategoryWords}
    \cup {<<"Alex", "paid", "90", "for", w, v>> :
            w \in CategoryWords, v \in CategoryWords}

CategoryInit ==
    /\ members = <<"Alex", "Jamie">>
    /\ pc = "classify"
    /\ line \in CategoryLines
    /\ result = <<>>
    /\ nlines = 0
    /\ transactions = <<>>
    /\ debts = <<>>
    /\ loans = <<>>
    /\ ledger = <<>>
    /\ call = <<>>
    /\ detected_currencies = <<>>
    /\ monthly_obligations = <<>>
    /\ settle = <<>>
    /\ NoBot

\* category = self._guess_category(lower), src/__init__.py line 131
GuessCategoryCall ==
    /\ pc = "classify"
    /\ pc' = "guessed"
    /\ result' = [category |-> GuessCategory(line)]
    /\ UNCHANGED <<botvars, members, nlines, line, transactions, debts, loans, ledger,
                   call, detected_currencies, monthly_obligations, settle>>

\* "category": self._categorize(line), src/familybot__init__.py line 156
CategorizeCall ==
    /\ pc = "classify"
    /\ pc' = "categorized"
    /\ result' = [category |-> Categorize(line)]
    /\ UNCHANGED <<botvars, members, nlines, line, transactions, debts, loans, ledger,
                   call, detected_currencies, monthly_obligations, settle>>

CategoryNext == GuessCategoryCall \/ CategorizeCall

SpecCategory == CategoryInit /\ [][CategoryNext]_vars

\* The groups of _guess_category in the order of its conditions: the keywords
\* looked up in the line, those looked up among its tokens, and the category
GuessGroups ==
    << <<{"rent"}, {}, "rent">>,
       <<{"grocery"}, {}, "groceries">>,
       <<{"school"}, {}, "school fees">>,
       <<{"salik"}, {}, "salik">>,
       <<{"parking"}, {}, "parking">>,
       <<{"electric"}, {}, "electricity">>,
       <<{"water"}, {}, "water">>,
       <<{"etisalat"}, {"du"}, "telecom">>,
       <<{"loan"}, {}, "loan">> >>

\* group g of _guess_category has a keyword present in the line
GuessPresent(l, g) ==
    \/ \E kw \in GuessGroups[g][1] : HasKeyword(l, kw)
    \/ \E kw \in GuessGroups[g][2] : kw \in RangeOf(l)

\* group g of CATEGORY_KEYWORDS has a keyword present in the line
KeywordPresent(l, g) == \E kw \in CATEGORY_KEYWORDS[g][1] : HasKeyword(l, kw)

----------------------------------------------------------------------------
(* Several analyze calls on one agent                                       *)
(*                                                                         *)
(* call holds the agent the calls are made on ("pcn": src/__init__.py,     *)
(* "ledger": src/familybot.py and src/familybot__init__.py), the roster it  *)
(* was constructed with, the number n of the call in progress, the lines    *)
(* text that this call has read so far, and the lines earlier that the      *)
(* earlier calls have read.                                                 *)

MaxCalls == 2       \* analyze calls on one agent

ReentrantLines ==
    {<<"Alex", "paid", "90", "for", "Jamie">>,
     <<"Jamie", "owes", "Alex", "90">>,
     <<"Alex", "took", "loan", "90", "monthly", "0.03">>,
     <<"Alex", "paid", "1.2.3">>}

\* the agent is constructed and analyze is entered: lines 35-36 of
\* src/__init__.py, lines 125-129 of src/familybot.py
ReentrantInit ==
    /\ members \in Rosters
    /\ \E a \in {"pcn", "ledger"} :
         call = [agent |-> a, roster |-> members, n |-> 1, text |-> <<>>,
                 earlier |-> {}]
    /\ pc = "parse"
    /\ nlines = 0
    /\ line = <<>>
    /\ transactions = <<>>
    /\ debts = <<>>
    /\ loans = <<>>
    /\ result = NoResult
    /\ ledger = EmptyLedger
    /\ detected_currencies = <<>>
    /\ monthly_obligations = <<>>
    /\ settle = <<>>
    /\ NoBot

\* one iteration of `for line in lines` of _fallback_parse
AgentParseLine ==
    /\ call.agent = "pcn"
    /\ pc = "parse"
    /\ nlines < MaxLines
    /\ \E l \in ReentrantLines, up \in BOOLEAN :
         LET r == FallbackParseLine(members, l, transactions, debts, loans, up)
         IN  /\ line' = l
             /\ call' = [call EXCEPT !.text = Append(@, l)]
             /\ transactions' = r[1]
             /\ debts' = r[2]
             /\ loans' = r[3]
    /\ nlines' = nlines + 1
    /\ UNCHANGED <<botvars, members, pc, result, ledger, detected_currencies,
                   monthly_obligations, settle>>

\* the rest of analyze of src/__init__.py
AgentAnalyze ==
    /\ call.agent = "pcn"
    /\ pc = "parse"
    /\ \E U \in SUBSET TieSites(members, transactions, debts),
          P \in SUBSET TieIterations(members, transactions, debts) :
         result' = Summarize(members, transactions, debts, loans, U, P)
    /\ pc' = "done"
    /\ UNCHANGED <<botvars, members, nlines, line, transactions, debts, loans, ledger, call,
                   detected_currencies, monthly_obligations, settle>>

\* one iteration of `for line in lines` of the ledger agent's analyze
AgentHandleLine ==
    /\ call.agent = "ledger"
    /\ pc = "parse"
    /\ nlines < MaxLines
    /\ \E l \in ReentrantLines, up \in BOOLEAN :
         /\ line' = l
         /\ call' = [call EXCEPT !.text = Append(@, l)]
         /\ IF RaisesValueError(l)
            THEN /\ pc' = "error"
                 /\ UNCHANGED <<ledger, loans, monthly_obligations,
                                detected_currencies, transactions>>
            ELSE LET r == HandleLineOf(ledger, loans, monthly_obligations,
                                       detected_currencies, transactions,
                                       members, l, up)
                 IN  /\ ledger' = r[1]
                     /\ loans' = r[2]
                     /\ monthly_obligations' = r[3]
                     /\ detected_currencies' = r[4]
                     /\ transactions' = r[5]
                     /\ pc' = pc
    /\ nlines' = nlines + 1
    /\ UNCHANGED <<botvars, members, debts, result, settle>>

\* the rest of the ledger agent's analyze
AgentLedgerAnalyze ==
    /\ call.agent = "ledger"
    /\ pc = "parse"
    /\ \E U \in SUBSET LedgerTieSites(ledger, monthly_obligations, members) :
         result' = LedgerSummarize(ledger, loans, monthly_obligations,
                                   detected_currencies, transactions, members, U)
    /\ pc' = "done"
    /\ UNCHANGED <<botvars, members, nlines, line, transactions, debts, loans, ledger, call,
                   detected_currencies, monthly_obligations, settle>>

\* a call that keeps the accumulators of the call before it
NewCallKeeping ==
    /\ pc \in {"done", "error"}
    /\ call.n < MaxCalls
    /\ call' = [call EXCEPT !.n = @ + 1, !.text = <<>>,
                            !.earlier = @ \cup RangeOf(call.text)]
    /\ pc' = "parse"
    /\ nlines' = 0
    /\ line' = <<>>
    /\ result' = NoResult
    /\ UNCHANGED <<botvars, members, transactions, debts, loans, ledger,
                   detected_currencies, monthly_obligations, settle>>

\* analyze has returned or raised, and is called again on the same agent: its
\* locals are created anew (src/__init__.py lines 35-36 and 107-109,
\* src/familybot.py lines 125-129), self.members / self.family_members is the
\* list of the constructor
NewCall ==
    /\ pc \in {"done", "error"}
    /\ call.n < MaxCalls
    /\ call' = [call EXCEPT !.n = @ + 1, !.text = <<>>,
                            !.earlier = @ \cup RangeOf(call.text)]
    /\ pc' = "parse"
    /\ nlines' = 0
    /\ line' = <<>>
    /\ transactions' = <<>>
    /\ debts' = <<>>
    /\ loans' = <<>>
    /\ result' = NoResult
    /\ ledger' = EmptyLedger
    /\ detected_currencies' = <<>>
    /\ monthly_obligations' = <<>>
    /\ UNCHANGED <<botvars, members, settle>>

ReentrantNext ==
    \/ AgentParseLine
    \/ AgentAnalyze
    \/ AgentHandleLine
    \/ AgentLedgerAnalyze
    \/ NewCall

SpecReentrant == ReentrantInit /\ [][ReentrantNext]_vars

RECURSIVE FreshParses(_, _)
\* <<transactions, debts, loans>> that _fallback_parse of a newly constructed
\* agent can return for the text
FreshParses(roster, text) ==
    IF text = <<>> THEN {<< <<>>, <<>>, <<>> >>}
    ELSE {FallbackParseLine(roster, text[Len(text)], a[1], a[2], a[3], up) :
            a \in FreshParses(roster, SubSeq(text, 1, Len(text) - 1)),
            up \in BOOLEAN}

RECURSIVE FreshHandled(_, _)
\* the accumulators of analyze of a newly constructed ledger agent after the
\* lines of the text, none of which raises
FreshHandled(roster, text) ==
    IF text = <<>> THEN {<<EmptyLedger, <<>>, <<>>, <<>>, <<>>>>}
    ELSE {HandleLineOf(a[1], a[2], a[3], a[4], a[5], roster, text[Len(text)], up) :
            a \in FreshHandled(roster, SubSeq(text, 1, Len(text) - 1)),
            up \in BOOLEAN}

\* the results that analyze(text) of a newly constructed agent can return
FreshResults(agent, roster, text) ==
    IF agent = "pcn"
    THEN UNION {{Summarize(roster, a[1], a[2], a[3], U, P) :
                   U \in SUBSET TieSites(roster, a[1], a[2]),
                   P \in SUBSET TieIterations(roster, a[1], a[2])} :
                a \in FreshParses(roster, text)}
    ELSE UNION {{LedgerSummarize(a[1], a[2], a[3], a[4], a[5], roster, U) :
                   U \in SUBSET LedgerTieSites(a[1], a[3], roster)} :
                a \in FreshHandled(roster, text)}

\* analyze(text) of a newly constructed ledger agent raises at the last line
\* of the text
FreshRaises(text) ==
    /\ text # <<>>
    /\ RaisesValueError(text[Len(text)])
    /\ \A k \in 1..(Len(text) - 1) : ~RaisesValueError(text[k])

\* C20: reentrancy of analyze - whatever the earlier calls on the agent have
\* analysed, a call starts from empty accumulators, returns a result that a
\* first call on a newly constructed agent with the same roster returns for
\* the same text (and raises only where that call raises), and leaves the
\* roster as it was constructed.
C20_Reentrant ==
    /\ members = call.roster
    /\ (pc = "parse" /\ nlines = 0) =>
          /\ transactions = <<>> /\ debts = <<>> /\ loans = <<>>
          /\ ledger = EmptyLedger
          /\ detected_currencies = <<>> /\ monthly_obligations = <<>>
    /\ pc = "done" => result \in FreshResults(call.agent, call.roster, call.text)
    /\ pc = "error" => call.agent = "ledger" /\ FreshRaises(call.text)

\* a second call on a ledger agent whose first call recorded a debt of Jamie
\* has returned for a text without debts
C20_Witness ==
    /\ pc = "done"
    /\ call.agent = "ledger"
    /\ call.n = 2
    /\ <<"Jamie", "owes", "Alex", "90">> \in call.earlier
    /\ call.text = <<<<"Alex", "took", "loan", "90", "monthly", "0.03">>>>
    /\ members = <<"Alex", "Jamie">>
    /\ result.summary["Jamie"].owes = 0

----------------------------------------------------------------------------
(* The bot's note store: src/bot.py                                         *)
(*                                                                         *)
(* A handler reads and writes CHAT_NOTES before its only await (the reply), *)
(* and the event loop runs one coroutine at a time, so a handler is one     *)
(* step.  A note is [text, created_at], created_at being the month of       *)
(* datetime.utcnow().                                                       *)

MaxNotes == 2       \* notes sent to one chat between two /reset
MaxMonth == 2       \* months that pass

Chats == {1, 2}

\* the texts of the messages; NoText is a message without text
NoteTexts == {<<"Alex", "paid", "90">>, <<"Alex", "took", "loan", "90">>}
NoText == <<>>

\* no agent is running
NoAgent ==
    /\ members = <<>>
    /\ pc = "bot"
    /\ nlines = 0
    /\ line = <<>>
    /\ transactions = <<>>
    /\ debts = <<>>
    /\ loans = <<>>
    /\ result = NoResult
    /\ ledger = EmptyLedger
    /\ call = <<>>
    /\ detected_currencies = <<>>
    /\ monthly_obligations = <<>>
    /\ settle = <<>>

\* _get_chat_notes, lines 56-59: CHAT_NOTES after the call; the list returned
\* is its entry for the chat
GetChatNotes(CN, chat_id) ==
    IF chat_id \notin DOMAIN CN
    THEN [c \in DOMAIN CN \cup {chat_id} |-> IF c = chat_id THEN <<>> ELSE CN[c]]
    ELSE CN

\* note_handler, lines 73-79: the store after the note is appended
AppendNote(CN, chat_id, text, now) ==
    [GetChatNotes(CN, chat_id) EXCEPT ![chat_id] =
        Append(@, [text |-> text, created_at |-> now])]

\* a /reset that empties the whole store
PopAll(CN, chat_id) == <<>>

\* CHAT_NOTES.pop(chat_id, None), line 64
Pop(CN, chat_id) == [c \in DOMAIN CN \ {chat_id} |-> CN[c]]

\* _filter_notes_by_mode, lines 83-97
FilterNotesByMode(notes, mode, now) ==
    IF mode = "all" THEN notes
    ELSE SelectSeq(notes, LAMBDA n : n.created_at = now)

\* "\n".join(n["text"] for n in notes): the lines of the text block
TextBlock(notes) == [k \in 1..Len(notes) |-> notes[k].text]

\* the notes the store holds for a chat
NotesOf(CN, chat_id) == IF chat_id \in DOMAIN CN THEN CN[chat_id] ELSE <<>>

BotInit ==
    /\ NoAgent
    /\ CHAT_NOTES = <<>>
    /\ telegram = [sent |-> [c \in Chats |-> <<>>], now |-> 1,
                   last |-> [handler |-> "none"]]
    /\ application = <<>>
    /\ requests = <<>>

\* note_handler, lines 68-80
NoteHandler ==
    /\ \E chat_id \in Chats, text \in NoteTexts \cup {NoText} :
         IF text = NoText
         THEN /\ CHAT_NOTES' = CHAT_NOTES
              /\ telegram' = [telegram EXCEPT
                     !.last = [handler |-> "note", chat |-> chat_id,
                               reply |-> "none", analysed |-> FALSE]]
         ELSE /\ Len(telegram.sent[chat_id]) < MaxNotes
              /\ CHAT_NOTES' = AppendNote(CHAT_NOTES, chat_id, text, telegram.now)
              /\ telegram' = [telegram EXCEPT
                     !.sent[chat_id] = Append(@, text),
                     !.last = [handler |-> "note", chat |-> chat_id,
                               reply |-> "recorded", analysed |-> FALSE]]
    /\ UNCHANGED <<agentvars, application, requests>>

\* reset_handler, lines 62-65
ResetHandler ==
    /\ \E chat_id \in Chats :
         /\ CHAT_NOTES' = Pop(CHAT_NOTES, chat_id)
         /\ telegram' = [telegram EXCEPT
                !.sent[chat_id] = <<>>,
                !.last = [handler |-> "reset", chat |-> chat_id,
                          reply |-> "deleted", analysed |-> FALSE]]
    /\ UNCHANGED <<agentvars, application, requests>>

\* summary_handler, lines 100-124; analysed tells whether agent.analyze was
\* called, text_block is its argument
SummaryHandler ==
    /\ \E chat_id \in Chats, mode \in {"month", "all"} :
         LET CN == GetChatNotes(CHAT_NOTES, chat_id)
             notes == CN[chat_id]
             filtered == FilterNotesByMode(notes, mode, telegram.now)
         IN  /\ CHAT_NOTES' = CN
             /\ telegram' = [telegram EXCEPT !.last =
                    IF notes = <<>>
                    THEN [handler |-> "summary", chat |-> chat_id,
                          reply |-> "no data", analysed |-> FALSE]
                    ELSE IF filtered = <<>>
                    THEN [handler |-> "summary", chat |-> chat_id,
                          reply |-> "no data in this period", analysed |-> FALSE]
                    ELSE [handler |-> "summary", chat |-> chat_id,
                          reply |-> "summary", analysed |-> TRUE,
                          text_block |-> TextBlock(filtered)]]
    /\ UNCHANGED <<agentvars, application, requests>>

\* loans_handler, lines 127-149
LoansHandler ==
    /\ \E chat_id \in Chats :
         LET CN == GetChatNotes(CHAT_NOTES, chat_id)
             notes == CN[chat_id]
         IN  /\ CHAT_NOTES' = CN
             /\ telegram' = [telegram EXCEPT !.last =
                    IF notes = <<>>
                    THEN [handler |-> "loans", chat |-> chat_id,
                          reply |-> "no data", analysed |-> FALSE]
                    ELSE [handler |-> "loans", chat |-> chat_id,
                          reply |-> "loans", analysed |-> TRUE,
                          text_block |-> TextBlock(notes)]]
    /\ UNCHANGED <<agentvars, application, requests>>

\* start_handler and help_handler, lines 27-53: a reply and nothing else
HelpHandler ==
    /\ \E chat_id \in Chats :
         telegram' = [telegram EXCEPT
             !.last = [handler |-> "help", chat |-> chat_id,
                       reply |-> "help", analysed |-> FALSE]]
    /\ UNCHANGED <<agentvars, CHAT_NOTES, application, requests>>

\* datetime.utcnow() reaches the next month
MonthPasses ==
    /\ telegram.now < MaxMonth
    /\ telegram' = [telegram EXCEPT !.now = @ + 1, !.last = [handler |-> "none"]]
    /\ UNCHANGED <<agentvars, CHAT_NOTES, application, requests>>

BotNext ==
    \/ NoteHandler
    \/ ResetHandler
    \/ SummaryHandler
    \/ LoansHandler
    \/ HelpHandler
    \/ MonthPasses

SpecBot == BotInit /\ [][BotNext]_vars

\* C22: per-conversation note store - the notes held for a chat are the texts
\* of the note messages sent to it since its last /reset, in arrival order; a
\* /reset removes all notes of its chat; an event changes the notes of no other
\* chat; a /summary or /loans on a chat without notes replies "no data" and
\* runs no analysis.
C22_NoteStore ==
    /\ [](\A c \in Chats : TextBlock(NotesOf(CHAT_NOTES, c)) = telegram.sent[c])
    /\ [](telegram.last.handler = "reset" =>
             NotesOf(CHAT_NOTES, telegram.last.chat) = <<>>)
    /\ [][\A c \in Chats :
            (telegram'.last.handler = "none" \/ telegram'.last.chat # c) =>
                NotesOf(CHAT_NOTES', c) = NotesOf(CHAT_NOTES, c)]_vars
    /\ []((telegram.last.handler \in {"summary", "loans"}
             /\ NotesOf(CHAT_NOTES, telegram.last.chat) = <<>>) =>
              (telegram.last.reply = "no data" /\ ~telegram.last.analysed))

\* /reset has just run on chat 1, which holds no notes, while chat 2 still
\* holds the two notes sent to it, in their order
C22_Witness ==
    /\ telegram.last.handler = "reset"
    /\ telegram.last.chat = 1
    /\ NotesOf(CHAT_NOTES, 1) = <<>>
    /\ TextBlock(NotesOf(CHAT_NOTES, 2))
         = << <<"Alex", "took", "loan", "90">>, <<"Alex", "paid", "90">> >>

----------------------------------------------------------------------------
(* The webhook: src/api/telegram.py                                         *)
(*                                                                         *)
(* Every POST request runs do_POST, and with it its own asyncio.run of      *)
(* process(); requests handled at the same time interleave between the      *)
(* statements of process().  The update of a request is a note or a /reset  *)
(* for some chat.                                                           *)

MaxRequests == 2

Requests == 1..MaxRequests

WebhookInit ==
    /\ NoAgent
    /\ CHAT_NOTES = <<>>
    /\ telegram = <<>>
    /\ application = [_initialized |-> FALSE, started |-> 0, completed |-> 0]
    /\ requests = [r \in Requests |-> "waiting"]

\* lines 12-16 and 24: the request arrives and process() starts
DoPost ==
    /\ \E r \in Requests :
         /\ requests[r] = "waiting"
         /\ requests' = [requests EXCEPT ![r] = "check"]
    /\ UNCHANGED <<agentvars, CHAT_NOTES, telegram, application>>

\* line 19, and the call of line 20 when the attribute is not set
CheckInitialized ==
    /\ \E r \in Requests :
         /\ requests[r] = "check"
         /\ IF ~application._initialized
            THEN /\ application' = [application EXCEPT !.started = @ + 1]
                 /\ requests' = [requests EXCEPT ![r] = "initialize"]
            ELSE /\ application' = application
                 /\ requests' = [requests EXCEPT ![r] = "process_update"]
    /\ UNCHANGED <<agentvars, CHAT_NOTES, telegram>>

\* line 20: the awaited application.initialize() completes
InitializeCompletes ==
    /\ \E r \in Requests :
         /\ requests[r] = "initialize"
         /\ application' = [application EXCEPT !.completed = @ + 1]
         /\ requests' = [requests EXCEPT ![r] = "set"]
    /\ UNCHANGED <<agentvars, CHAT_NOTES, telegram>>

\* line 21
SetInitialized ==
    /\ \E r \in Requests :
         /\ requests[r] = "set"
         /\ application' = [application EXCEPT !._initialized = TRUE]
         /\ requests' = [requests EXCEPT ![r] = "process_update"]
    /\ UNCHANGED <<agentvars, CHAT_NOTES, telegram>>

\* line 22: process_update hands the update to its handler of bot.py
ProcessUpdate ==
    /\ \E r \in Requests, chat_id \in Chats, text \in NoteTexts \cup {<<"/reset">>} :
         /\ requests[r] = "process_update"
         /\ CHAT_NOTES' = IF text = <<"/reset">>
                          THEN Pop(CHAT_NOTES, chat_id)
                          ELSE AppendNote(CHAT_NOTES, chat_id, text, 1)
         /\ requests' = [requests EXCEPT ![r] = "respond"]
    /\ UNCHANGED <<agentvars, telegram, application>>

\* lines 25-28: the response 200 "OK"
Respond ==
    /\ \E r \in Requests :
         /\ requests[r] = "respond"
         /\ requests' = [requests EXCEPT ![r] = "done"]
    /\ UNCHANGED <<agentvars, CHAT_NOTES, telegram, application>>

WebhookNext ==
    \/ DoPost
    \/ CheckInitialized
    \/ InitializeCompletes
    \/ SetInitialized
    \/ ProcessUpdate
    \/ Respond

SpecWebhook == WebhookInit /\ [][WebhookNext]_vars

\* application.initialize() is invoked at most once
InitializeOnce == application.started <= 1

\* no request enters process_update before an initialize call has completed
ProcessAfterInitialize ==
    [][\A r \in Requests :
          (requests'[r] = "process_update" /\ requests[r] # "process_update") =>
              application'.completed >= 1]_vars

\* C26: webhook initialisation - across any interleaving of concurrently
\* handled POST requests, application.initialize() is invoked at most once, and
\* process_update is never run for a request before an initialize call has
\* completed.
C26_WebhookInitialisation == []InitializeOnce /\ ProcessAfterInitialize

====
